---- MODULE Spec2Model ----
(***************************************************************************)
(* gifpgn: rendering of a chess game (one frame per ply) into layered      *)
(* rasters.  The model follows the sources under src/gifpgn:               *)
(*   gifpgn.py      CreateGifFromPGN  (configuration calls and generate)   *)
(*   components.py  _Canvas, _Board, _EvalBar, _Graph                      *)
(* Objects are records whose fields keep the attribute names of the        *)
(* source; methods are operators taking the object as `self`.              *)
(* Raster contents, fonts and asset files belong to the imaging library    *)
(* and are taken as total: a raster is represented by its size and by the  *)
(* rectangles pasted onto it.  Exceptions are the ones the Python source   *)
(* itself decides (an attribute access on None, a raise statement, a       *)
(* missing dictionary key, a division by zero).                            *)
(* Arithmetic is exact: floor(a/b) of the source is a \div b here.         *)
(***************************************************************************)
EXTENDS Integers, Sequences, FiniteSets

VARIABLES
    unit,     \* which class the run exercises: "gif", "canvas", "bar", "graph", "board"
    game,     \* the chess.pgn.Game handed to the constructors: main line, root first
    gif,      \* the CreateGifFromPGN object
    pc,       \* position inside CreateGifFromPGN.generate
    frames,   \* generate's local list `frames`
    captures, \* generate's local list `captures`
    call,     \* the last call made on an object and how it ended
    canvas,   \* the _Canvas object and the rectangles pasted on its raster
    bar,      \* the _EvalBar object
    graph,    \* the _Graph object
    board,    \* the _Board object
    pgn,      \* the utils.PGN object
    lines     \* the two lines handed to the functions of geometry.py

vars == <<unit, game, gif, pc, frames, captures, call, canvas, bar, graph, board, pgn, lines>>

(***************************************************************************)
(* Bounds of the model.                                                    *)
(***************************************************************************)
MaxPly == 2         \* longest main line, in plies
MaxBoardPx == 9     \* largest value assigned to board_size
MaxSize == 2        \* largest bar width, graph height and header height

(***************************************************************************)
(* Program constants.                                                      *)
(***************************************************************************)
DefaultBoardSize == 480
DefaultMaxEval == 1000
HoldFrames == 20

(***************************************************************************)
(* Python values of the optional settings: None, a bool, or an int.        *)
(* bool is a subclass of int: False counts as 0 in arithmetic, and         *)
(* `False is not None` is true.                                            *)
(***************************************************************************)
PyNone == [k |-> "None", v |-> 0]
PyFalse == [k |-> "bool", v |-> 0]
PyInt(n) == [k |-> "int", v |-> n]
IsNotNone(x) == x.k # "None"
OrZero(x) == IF IsNotNone(x) THEN x.v ELSE 0

(***************************************************************************)
(* chess.engine scores as the source uses them (white's point of view).    *)
(*   Cp(n)      centipawns                                                 *)
(*   Mate(n)    n > 0: white mates in n; n < 0: black mates in -n;         *)
(*              n = 0: the side is mated                                   *)
(*   MateGiven  white has delivered mate                                   *)
(*   NoEval     game.eval() is None                                        *)
(***************************************************************************)
NoEval == [t |-> "none", v |-> 0]
Cp(n) == [t |-> "cp", v |-> n]
Mate(n) == [t |-> "mate", v |-> n]
MateGiven == [t |-> "mategiven", v |-> 0]

Abs(n) == IF n < 0 THEN -n ELSE n

\* evalu.mate(): None for a centipawn score (reported by IsMate), else the distance
IsMate(evalu) == evalu.t # "cp"
mate(evalu) == evalu.v

\* evalu.score(mate_score=ms)
score(evalu, ms) ==
    CASE evalu.t = "cp" -> evalu.v
      [] evalu.t = "mategiven" -> ms
      [] evalu.t = "mate" /\ evalu.v > 0 -> ms - evalu.v
      [] OTHER -> -ms - evalu.v

(***************************************************************************)
(* Games: the main line as a sequence of nodes, node i+1 being ply i.      *)
(***************************************************************************)
\* A node carries its evaluation, what the parent board says of the move
\* that leads to it: is_capture / is_en_passant, and the piece standing on the
\* move's destination square before the move (NoPiece: the square is empty),
\* and whether its own board is checkmate.  It also carries the move's two
\* squares, the squares of the pieces that give check on its board
\* (board.checkers(), in SquareSet order), the square of the king of the side
\* to move, the [%clk] annotation of its comment in seconds (PyNone: none),
\* and the Wdl that python-chess's "sf" model gives for its evaluation at its
\* ply, from white's side, as << wins, draws, losses >> per mille.
EvalChoices == {NoEval, Cp(50)}
NoPiece == [piece_type |-> "None", color |-> FALSE]
Piece(piece_type, color) == [piece_type |-> piece_type, color |-> color]

\* Score.wdl() of a mate is all wins or all losses; that of a centipawn score
\* comes from the library's fitted curve and is an input of the model: the
\* games that do not choose it carry an even one
Wdl(e) ==
    IF e.t = "none" THEN << >>
    ELSE IF e.t = "mategiven" \/ (e.t = "mate" /\ e.v > 0) THEN << 1000, 0, 0 >>
    ELSE IF e.t = "mate" THEN << 0, 0, 1000 >>
    ELSE << 0, 1000, 0 >>

MoveNode(e, c, v) ==
    [ eval |-> e, capture |-> c, victim |-> v, checkmate |-> FALSE,
      from_square |-> 12, to_square |-> 28, checkers |-> << >>, king |-> 60,
      clock |-> PyNone, wdl |-> Wdl(e), root_ply |-> 0 ]
Node(e) == MoveNode(e, "none", NoPiece)
Games ==
    UNION {[1..(n + 1) -> {Node(e) : e \in EvalChoices}] : n \in 1..MaxPly}

\* self._game_root.end().ply()
EndPly(g) == Len(g) - 1

\* A game set up from a position (a FEN header) counts its plies from that
\* position's ply: root_ply, read at the root, is self._game_root.ply(), and
\* node i of the main line has ply root_ply + i - 1.
RootPly(g) == IF g = << >> THEN 0 ELSE g[1].root_ply
LastPly(g) == RootPly(g) + Len(g) - 1
NodeAt(g, ply) == g[ply - RootPly(g) + 1]

\* what chess.pgn.read_game returns for an empty PGN: None
NoGame == << >>

\* the same game, its last move giving checkmate
EndingInMate(g) == [g EXCEPT ![Len(g)].checkmate = TRUE]

(***************************************************************************)
(* CreateGifFromPGN                                                        *)
(***************************************************************************)
DefaultColors == [k |-> "dict", white |-> "#f0d9b5", black |-> "#b58863"]

\* values a caller may assign to square_colors
ColorValues ==
    { [k |-> "BoardTheme", white |-> "white", black |-> "#000000"],
      [k |-> "dict", white |-> "#FF0000", black |-> "#00FF00"],
      [k |-> "list", white |-> "none", black |-> "none"] }

\* __init__
NewGif ==
    [ _board_size |-> (DefaultBoardSize \div 8) * 8,     \* through the setter
      _sq_size |-> ((DefaultBoardSize \div 8) * 8) \div 8,
      _square_colors |-> DefaultColors,
      _max_eval |-> DefaultMaxEval,
      _reverse |-> FALSE,
      _arrows |-> FALSE,
      _nag |-> FALSE,
      _bar_size |-> PyFalse,
      _graph_size |-> PyFalse,
      _header_size |-> PyFalse,
      _game |-> 0 ]

\* an object that was not constructed
NotBuilt == [built |-> FALSE]

\* the record of a call: its name, its argument, the exception it raised, its result
NoCall == [op |-> "__init__", arg |-> 0, raised |-> "none", ret |-> 0]
Called(name, a, exc) == [op |-> name, arg |-> a, raised |-> exc, ret |-> 0]
Returned(name, a, r) == [op |-> name, arg |-> a, raised |-> "none", ret |-> r]

\* The calls that only compute a value and leave every object as it was.  A
\* query asked after another query reaches nothing that the same query asked
\* first does not reach, so queries follow a construction or a change only.
Queries ==
    { "_EvalBar._get_bar_position", "_get_bar_position",
      "_Graph._get_graph_position", "_get_graph_position",
      "at_move", "_draw_graph_point",
      "_Graph._draw_graph_background", "_draw_graph_background",
      "get_square_color", "get_square_position",
      "_get_square_color", "_get_square_position",
      "PGN.has_analysis", "pgn_has_analysis",
      "shorten_line", "line_intersection", "draw_nag", "_draw_nag",
      "_EvalBar._draw_eval_bar", "_draw_eval_bar", "PGN.acpl" }
Unasked == call.op \notin Queries

\* pgn_has_analysis: walk from the root; False at the first node without eval
RECURSIVE HasAnalysisFrom(_, _)
HasAnalysisFrom(g, i) ==
    IF g[i].eval = NoEval THEN FALSE
    ELSE IF i = Len(g) THEN TRUE
    ELSE HasAnalysisFrom(g, i + 1)

\* a check that looks at the root only
HasAnalysisAtRoot(g) == g[1].eval # NoEval

pgn_has_analysis(g) == HasAnalysisFrom(g, 1)

\* a canvas with room for one header only
CanvasSizeOneHeader(self) ==
    << self._board_size + OrZero(self._bar_size),
       self._board_size + OrZero(self._header_size) + OrZero(self._graph_size) >>

\* _canvas_size
_canvas_size(self) ==
    << self._board_size + OrZero(self._bar_size),
       self._board_size + (OrZero(self._header_size) * 2) + OrZero(self._graph_size) >>

\* a setter that stores the size as given
StoreBoardSize(self, bsize) ==
    [self EXCEPT !._board_size = bsize, !._sq_size = bsize \div 8]

\* board_size (setter)
set_board_size(self, bsize) ==
    [self EXCEPT !._board_size = (bsize \div 8) * 8,
                 !._sq_size = ((bsize \div 8) * 8) \div 8]

\* max_eval (setter)
set_max_eval(self, max_eval) == [self EXCEPT !._max_eval = max_eval]

Idle == unit = "gif" /\ pc = "idle"
\* the runs in which generate is called
GenerateUnit == unit \in {"gif", "pipeline", "overlays"}
Others == <<unit, canvas, bar, graph, board, pgn, lines>>

board_size_setter(bsize) ==
    /\ Idle
    /\ gif' = set_board_size(gif, bsize)
    /\ call' = Called("board_size", bsize, "none")
    /\ UNCHANGED <<game, pc, frames, captures, Others>>

square_colors_setter(colors) ==
    /\ Idle
    /\ gif' = [gif EXCEPT !._square_colors = colors]
    /\ call' = Called("square_colors", colors, "none")
    /\ UNCHANGED <<game, pc, frames, captures, Others>>

add_analysis_bar(width) ==
    /\ Idle
    /\ IF ~pgn_has_analysis(game)
       THEN /\ call' = Called("add_analysis_bar", width, "MissingAnalysisError")
            /\ gif' = gif
       ELSE /\ call' = Called("add_analysis_bar", width, "none")
            /\ gif' = [gif EXCEPT !._bar_size = PyInt(width)]
    /\ UNCHANGED <<game, pc, frames, captures, Others>>

add_analysis_graph(height) ==
    /\ Idle
    /\ IF ~pgn_has_analysis(game)
       THEN /\ call' = Called("add_analysis_graph", height, "MissingAnalysisError")
            /\ gif' = gif
       ELSE /\ call' = Called("add_analysis_graph", height, "none")
            /\ gif' = [gif EXCEPT !._graph_size = PyInt(height)]
    /\ UNCHANGED <<game, pc, frames, captures, Others>>

enable_nags ==
    /\ Idle
    /\ IF ~pgn_has_analysis(game)
       THEN /\ call' = Called("enable_nags", 0, "MissingAnalysisError")
            /\ gif' = gif
       ELSE /\ call' = Called("enable_nags", 0, "none")
            /\ gif' = [gif EXCEPT !._nag = TRUE]
    /\ UNCHANGED <<game, pc, frames, captures, Others>>

add_headers(height) ==
    /\ Idle
    /\ gif' = [gif EXCEPT !._header_size = PyInt(height)]
    /\ call' = Called("add_headers", height, "none")
    /\ UNCHANGED <<game, pc, frames, captures, Others>>

reverse_board ==
    /\ Idle
    /\ gif' = [gif EXCEPT !._reverse = TRUE]
    /\ call' = Called("reverse_board", 0, "none")
    /\ UNCHANGED <<game, pc, frames, captures, Others>>

enable_arrows ==
    /\ Idle
    /\ gif' = [gif EXCEPT !._arrows = TRUE]
    /\ call' = Called("enable_arrows", 0, "none")
    /\ UNCHANGED <<game, pc, frames, captures, Others>>

(***************************************************************************)
(* generate.  A frame is its ply, its size and the rectangles pasted onto  *)
(* it, in paste order.                                                     *)
(***************************************************************************)
Rect(name, x, y, w, h) == [name |-> name, x |-> x, y |-> y, w |-> w, h |-> h]

(***************************************************************************)
(* _Canvas                                                                 *)
(***************************************************************************)
\* __init__
New_Canvas(board_px, analysis_bar, analysis_graph, headers, reverse) ==
    [ board_size |-> board_px,
      bar_size |-> IF analysis_bar.k = "None" THEN 0 ELSE analysis_bar.v,
      graph_size |-> IF analysis_graph.k = "None" THEN 0 ELSE analysis_graph.v,
      header_size |-> IF headers.k = "None" THEN 0 ELSE headers.v,
      reverse |-> reverse,
      pasted |-> {} ]

\* size
Canvas_size(self) ==
    << self.board_size + self.bar_size,
       self.board_size + self.graph_size + (self.header_size * 2) >>

\* the origins at which add_board, add_bar, add_graph and add_headers paste
BoardOrigin(self) == << 0, self.header_size >>
BarOrigin(self) == << self.board_size, self.header_size >>
GraphOriginUnderBoard(self) == << 0, self.header_size + self.board_size >>
GraphOrigin(self) == << 0, Canvas_size(self)[2] - self.graph_size >>
WhiteOrigin(self) == << 0, IF self.reverse THEN 0 ELSE self.header_size + self.board_size >>
BlackOrigin(self) == << 0, IF self.reverse THEN self.header_size + self.board_size ELSE 0 >>

Paste(self, name, at, img) ==
    [self EXCEPT !.pasted = @ \cup {Rect(name, at[1], at[2], img[1], img[2])}]

\* The rasters handed to the canvas have the size of their layer: the board
\* is board x board, the bar is bar x board, the graph and the headers span
\* the canvas width.
add_board ==
    /\ unit = "canvas"
    /\ canvas' = Paste(canvas, "board", BoardOrigin(canvas),
                       << canvas.board_size, canvas.board_size >>)
    /\ call' = Called("add_board", 0, "none")
    /\ UNCHANGED <<unit, game, gif, pc, frames, captures, bar, graph, board, pgn, lines>>

add_canvas_headers ==
    /\ unit = "canvas"
    /\ canvas' = Paste(Paste(canvas, "white", WhiteOrigin(canvas),
                             << Canvas_size(canvas)[1], canvas.header_size >>),
                       "black", BlackOrigin(canvas),
                       << Canvas_size(canvas)[1], canvas.header_size >>)
    /\ call' = Called("add_headers", 0, "none")
    /\ UNCHANGED <<unit, game, gif, pc, frames, captures, bar, graph, board, pgn, lines>>

add_bar ==
    /\ unit = "canvas"
    /\ canvas' = Paste(canvas, "bar", BarOrigin(canvas),
                       << canvas.bar_size, canvas.board_size >>)
    /\ call' = Called("add_bar", 0, "none")
    /\ UNCHANGED <<unit, game, gif, pc, frames, captures, bar, graph, board, pgn, lines>>

add_graph ==
    /\ unit = "canvas"
    /\ canvas' = Paste(canvas, "graph", GraphOrigin(canvas),
                       << Canvas_size(canvas)[1], canvas.graph_size >>)
    /\ call' = Called("add_graph", 0, "none")
    /\ UNCHANGED <<unit, game, gif, pc, frames, captures, bar, graph, board, pgn, lines>>

(***************************************************************************)
(* _EvalBar and CreateGifFromPGN._get_bar_position                         *)
(***************************************************************************)
\* _EvalBar.__init__
New_EvalBar(size, max_eval, reverse) ==
    [ _width |-> size[1], _height |-> size[2], _reverse |-> reverse, _max_eval |-> max_eval ]

\* _EvalBar._get_bar_position:
\*   y = ((score/max_eval)+1)*(height/2); if not reverse: y = height - y; floor(y)
EvalBar_get_bar_position(self, evalu) ==
    LET max_eval == self._max_eval + (IF IsMate(evalu) THEN Abs(mate(evalu)) ELSE 0)
        s == score(evalu, max_eval)
    IN  IF max_eval = 0 THEN [raised |-> "ZeroDivisionError", ret |-> 0]
        ELSE [ raised |-> "none",
               ret |-> IF self._reverse
                       THEN ((s + max_eval) * self._height) \div (2 * max_eval)
                       ELSE ((max_eval - s) * self._height) \div (2 * max_eval) ]

\* CreateGifFromPGN._get_bar_position; its first line parses as
\*   max_eval = (self.max_eval + 0) if evalu.mate() is None else abs(evalu.mate())
_get_bar_position(self, evalu) ==
    LET max_eval == IF ~IsMate(evalu) THEN self._max_eval + 0 ELSE Abs(mate(evalu))
        s == score(evalu, max_eval)
    IN  IF max_eval = 0 THEN [raised |-> "ZeroDivisionError", ret |-> 0]
        ELSE [ raised |-> "none",
               ret |-> IF self._reverse
                       THEN ((s + max_eval) * self._board_size) \div (2 * max_eval)
                       ELSE ((max_eval - s) * self._board_size) \div (2 * max_eval) ]

bar_get_bar_position(evalu) ==
    /\ unit = "bar"
    /\ Unasked
    /\ LET r == EvalBar_get_bar_position(bar, evalu)
       IN  call' = [op |-> "_EvalBar._get_bar_position", arg |-> evalu,
                    raised |-> r.raised, ret |-> r.ret]
    /\ UNCHANGED <<unit, game, gif, pc, frames, captures, canvas, bar, graph, board, pgn, lines>>

gif_get_bar_position(evalu) ==
    /\ unit = "bar"
    /\ Unasked
    /\ LET r == _get_bar_position(gif, evalu)
       IN  call' = [op |-> "_get_bar_position", arg |-> evalu,
                    raised |-> r.raised, ret |-> r.ret]
    /\ UNCHANGED <<unit, game, gif, pc, frames, captures, canvas, bar, graph, board, pgn, lines>>

(***************************************************************************)
(* Python's float arithmetic for x = (width / plies) * move, floored.      *)
(* A float is an IEEE double: 53 significant bits, every operation rounded *)
(* to nearest, ties to even.  Naturals beyond the machine range are kept   *)
(* as sequences of limbs in base 2^15, least significant first.            *)
(***************************************************************************)
Limb == 32768

RECURSIVE MulFrom(_, _, _, _)
MulFrom(a, c, i, carry) ==
    IF i > Len(a) THEN (IF carry = 0 THEN << >> ELSE << carry >>)
    ELSE LET t == a[i] * c + carry
         IN  << t % Limb >> \o MulFrom(a, c, i + 1, t \div Limb)

\* a * c, for a limb sequence a and 0 <= c < 2^15
MulSmall(a, c) == MulFrom(a, c, 1, 0)

\* a + 1
RECURSIVE AddOneFrom(_, _)
AddOneFrom(a, i) ==
    IF i > Len(a) THEN << 1 >>
    ELSE IF a[i] + 1 < Limb THEN [a EXCEPT ![i] = @ + 1]
    ELSE AddOneFrom([a EXCEPT ![i] = 0], i + 1)

\* a divided by d, 0 < d < 2^15: quotient (as many limbs as a) and remainder
RECURSIVE DivFrom(_, _, _, _)
DivFrom(a, d, i, rem) ==
    IF i = 0 THEN [q |-> << >>, r |-> rem]
    ELSE LET t == rem * Limb + a[i]
             rest == DivFrom(a, d, i - 1, t % d)
         IN  [q |-> Append(rest.q, t \div d), r |-> rest.r]

DivSmall(a, d) == DivFrom(a, d, Len(a), 0)

\* number of significant bits of n, 0 <= n < 2^15, and of a limb sequence
RECURSIVE BitsOf(_)
BitsOf(n) == IF n = 0 THEN 0 ELSE 1 + BitsOf(n \div 2)

RECURSIVE BitLengthFrom(_, _)
BitLengthFrom(a, i) ==
    IF i = 0 THEN 0
    ELSE IF a[i] # 0 THEN 15 * (i - 1) + BitsOf(a[i])
    ELSE BitLengthFrom(a, i - 1)

BitLength(a) == BitLengthFrom(a, Len(a))

\* round-to-nearest, ties-to-even, of a / d given quotient and remainder
RoundNearestEven(qr, d) ==
    IF 2 * qr.r > d \/ (2 * qr.r = d /\ qr.q[1] % 2 = 1)
    THEN AddOneFrom(qr.q, 1)
    ELSE qr.q

\* n * 2^e as limbs, for 0 <= n < 2^15
ShiftLeft(n, e) ==
    [i \in 1..(e \div 15) |-> 0] \o MulSmall(<< n >>, 2 ^ (e % 15))

\* the double nearest to w / n, for 0 < w, n < 2^15: mantissa m (53 bits, or
\* 2^53 after rounding up) and exponent e, the value being m / 2^e
FloatDiv(w, n) ==
    LET j == CHOOSE j \in (-15)..15 :
                 IF j >= 0 THEN n * (2 ^ j) <= w /\ w < n * (2 ^ (j + 1))
                 ELSE n <= w * (2 ^ (-j)) /\ w * (2 ^ (-j)) < 2 * n
        e == 52 - j
    IN  [m |-> RoundNearestEven(DivSmall(ShiftLeft(w, e), n), n), e |-> e]

\* the double nearest to f * k, for a double f and 0 <= k < 2^15
FloatMul(f, k) ==
    LET p == MulSmall(f.m, k)
        t == BitLength(p) - 53
    IN  IF t <= 0 THEN [m |-> p, e |-> f.e]
        ELSE [m |-> MulSmall(RoundNearestEven(DivSmall(p, 2 ^ t), 2 ^ t), 2 ^ t),
              e |-> f.e]

\* floor of a non-negative double below 2^30, and whether it is an integer
FloatFloor(f) ==
    LET whole == f.e \div 15
        low == SubSeq(f.m, 1, IF whole < Len(f.m) THEN whole ELSE Len(f.m))
        high == SubSeq(f.m, whole + 1, Len(f.m)) \o << 0, 0 >>
        qr == DivSmall(high, 2 ^ (f.e % 15))
    IN  [ floor |-> qr.q[1] + Limb * qr.q[2],
          exact |-> qr.r = 0 /\ \A i \in 1..Len(low) : low[i] = 0 ]

\* floor((w / n) * k) in float arithmetic, for w >= 0, n > 0 and any integer k
ScaledFloor(w, n, k) ==
    IF w % n = 0 THEN (w \div n) * k      \* no rounding: both floats are integers
    ELSE IF k = 0 THEN 0
    ELSE LET v == FloatFloor(FloatMul(FloatDiv(w, n), Abs(k)))
         IN  IF k > 0 THEN v.floor
             ELSE IF v.exact THEN -v.floor ELSE -v.floor - 1

\* '{0:+.1f}'.format(round(float(score)/100, 1)): the sign and the tenths
\* printed.  The division is rounded to a double; round() takes the tenth
\* nearest to that double's exact value, the even one on a tie; a negative
\* zero keeps its sign.
EvalString(cp) ==
    IF cp = 0 THEN << "+", 0 >>
    ELSE << IF cp < 0 THEN "-" ELSE "+",
            CHOOSE tenths \in { IF twenty.floor % 2 = 0 THEN twenty.floor \div 2
                                ELSE IF twenty.exact /\ (twenty.floor \div 2) % 2 = 0
                                THEN twenty.floor \div 2
                                ELSE twenty.floor \div 2 + 1 :
                                twenty \in { FloatFloor([m |-> MulSmall(x.m, 20), e |-> x.e]) :
                                             x \in {FloatDiv(Abs(cp), 100)} } } : TRUE >>

\* the text and its placement, common to both _draw_eval_bar: `s` is
\* evalu.score(mate_score=max_eval) and `height` the bar's height
BarLabel(evalu, s, height, reverse) ==
    [ text |-> IF ~IsMate(evalu) THEN EvalString(evalu.v)
               ELSE << "M", Abs(mate(evalu)) >>,
      color |-> IF s > 0 THEN "black" ELSE "white",
      pos |-> IF s > 0 THEN (IF reverse THEN 0 ELSE height)
              ELSE (IF reverse THEN height ELSE 0),
      anchor |-> IF s > 0 THEN (IF reverse THEN "ma" ELSE "md")
                 ELSE (IF reverse THEN "md" ELSE "ma") ]

\* the bar as drawn: the white rectangle's moving edge, from the outcome of
\* _get_bar_position, and the label; an exception of _get_bar_position ends
\* the drawing
BarDrawn(position, label) ==
    CHOOSE r \in { [ raised |-> y.raised,
                     ret |-> IF y.raised # "none" THEN << >>
                             ELSE << [ edge |-> y.ret, label |-> label ] >> ] :
                   y \in {position} } : TRUE

\* _EvalBar._draw_eval_bar
EvalBar_draw_eval_bar(self, evalu) ==
    BarDrawn(EvalBar_get_bar_position(self, evalu),
             BarLabel(evalu, score(evalu, self._max_eval), self._height, self._reverse))

\* CreateGifFromPGN._draw_eval_bar
_draw_eval_bar(self, evalu) ==
    BarDrawn(_get_bar_position(self, evalu),
             BarLabel(evalu, score(evalu, self._max_eval), self._board_size, self._reverse))

bar_draw_eval_bar(evalu) ==
    /\ unit = "bar"
    /\ Unasked
    /\ \E r \in {EvalBar_draw_eval_bar(bar, evalu)} :
          call' = [op |-> "_EvalBar._draw_eval_bar", arg |-> evalu, raised |-> r.raised, ret |-> r.ret]
    /\ UNCHANGED <<unit, game, gif, pc, frames, captures, canvas, bar, graph, board, pgn, lines>>

gif_draw_eval_bar(evalu) ==
    /\ unit = "bar"
    /\ Unasked
    /\ \E r \in {_draw_eval_bar(gif, evalu)} :
          call' = [op |-> "_draw_eval_bar", arg |-> evalu, raised |-> r.raised, ret |-> r.ret]
    /\ UNCHANGED <<unit, game, gif, pc, frames, captures, canvas, bar, graph, board, pgn, lines>>

(***************************************************************************)
(* _Graph and CreateGifFromPGN._draw_graph_point                           *)
(***************************************************************************)
AaFactor == 4

\* MoveOutOfRangeError(move, range): the two numbers its message is built from
OutOfRangeMessage(move, range) ==
    << "Requested move", move, "was higher than the game length", range >>

\* _Graph._get_graph_position:
\*   x = floor((width/(end ply - root ply))*move)
\*   y = floor(-((score - max_eval)*(height - 1))/(2*max_eval))
\* y is one float division of two integers, whose floor is the exact one.
Graph_get_graph_position(self, evalu, move) ==
    << ScaledFloor(self._width, LastPly(self._game_root) - RootPly(self._game_root), move),
       ((self._max_eval - score(evalu, self._max_eval)) * (self._height - 1))
           \div (2 * self._max_eval) >>

\* Image.copy(): another image with the same content
Copy(img) == [fills |-> img.fills, markers |-> img.markers, drawn |-> img.drawn, size |-> img.size]

\* draw.ellipse(box, fill="red") on an image
Ellipse(img, x0, y0, x1, y1) ==
    [img EXCEPT !.markers = Append(@, [box |-> << x0, y0, x1, y1 >>, fill |-> "red"])]

\* Image.resize(size): the drawing is resampled onto a raster of that size
Resize(img, size) == [img EXCEPT !.size = size]

\* lines 513-520 of at_move for the marker's centre xy: the red ellipse on a
\* copy of the background, scaled to the output size
Marked(self, xy) ==
    [ raised |-> "none", message |-> << >>,
      marker |-> xy,
      size |-> self._output_size,
      image |-> Resize(Ellipse(Copy(self._background),
                               xy[1] - 3 - self._line_width, xy[2] - 3 - self._line_width,
                               xy[1] + 3 + self._line_width, xy[2] + 3 + self._line_width),
                       self._output_size),
      self |-> self ]

\* the same without the copy: the ellipse lands on the stored background
MarkedInPlace(self, xy) ==
    [ raised |-> "none", message |-> << >>,
      marker |-> xy,
      size |-> self._output_size,
      image |-> Resize(Ellipse(self._background,
                               xy[1] - 3 - self._line_width, xy[2] - 3 - self._line_width,
                               xy[1] + 3 + self._line_width, xy[2] + 3 + self._line_width),
                       self._output_size),
      self |-> [self EXCEPT !._background =
                    Ellipse(@, xy[1] - 3 - self._line_width, xy[2] - 3 - self._line_width,
                            xy[1] + 3 + self._line_width, xy[2] + 3 + self._line_width)] ]

\* at_move drawing on the stored background itself
AtMoveInPlace(self, move_num) ==
    IF move_num > LastPly(self._game_root) \/ move_num \notin DOMAIN self._eval_at_move
    THEN [ raised |-> "KeyError", message |-> << move_num >>,
           marker |-> << >>, size |-> << >>, image |-> << >>, self |-> self ]
    ELSE CHOOSE r \in { MarkedInPlace(self, xy) :
                             xy \in {Graph_get_graph_position(self, self._eval_at_move[move_num],
                                                              move_num)} } : TRUE

\* _Graph.at_move: the marker goes on a copy of self._background; `self` is
\* the object after the call
Graph_at_move(self, move_num) ==
    IF move_num > LastPly(self._game_root)
    THEN [ raised |-> "MoveOutOfRangeError",
           message |-> OutOfRangeMessage(move_num, LastPly(self._game_root)),
           marker |-> << >>, size |-> << >>, image |-> << >>, self |-> self ]
    ELSE IF move_num \notin DOMAIN self._eval_at_move
    THEN [ raised |-> "KeyError", message |-> << move_num >>,
           marker |-> << >>, size |-> << >>, image |-> << >>, self |-> self ]
    ELSE CHOOSE r \in { Marked(self, xy) :
                             xy \in {Graph_get_graph_position(self, self._eval_at_move[move_num],
                                                              move_num)} } : TRUE

\* CreateGifFromPGN._get_graph_position
_get_graph_position(self, g, evalu, move) ==
    << ScaledFloor(_canvas_size(self)[1], EndPly(g), move),
       ((self._max_eval - score(evalu, self._max_eval)) * (self._graph_size.v - 1))
           \div (2 * self._max_eval) >>

\* direct calls of the two position functions
graph_get_graph_position(evalu, move) ==
    /\ unit \in {"graph", "rooted"}
    /\ graph # NotBuilt
    /\ Unasked
    /\ call' = Returned("_Graph._get_graph_position", << evalu, move >>,
                        Graph_get_graph_position(graph, evalu, move))
    /\ UNCHANGED <<unit, game, gif, pc, frames, captures, canvas, bar, graph, board, pgn, lines>>

gif_get_graph_position(evalu, move) ==
    /\ unit = "graph"
    /\ Unasked
    /\ call' = Returned("_get_graph_position", << evalu, move >>,
                        _get_graph_position(gif, game, evalu, move))
    /\ UNCHANGED <<unit, game, gif, pc, frames, captures, canvas, bar, graph, board, pgn, lines>>


(***************************************************************************)
(* _Board: size, theme and the memo of square-fill images                  *)
(***************************************************************************)
\* BoardTheme(): the dataclass defaults
DefaultTheme == [k |-> "BoardTheme", white |-> "#f0d9b5", black |-> "#b58863"]

\* isinstance(colors, BoardTheme)
IsBoardTheme(colors) == colors.k = "BoardTheme"

\* BoardTheme.square_color; chess.WHITE is True
square_color(theme, color) == IF color THEN theme.white ELSE theme.black

\* a colouring in which only the files alternate
FileParity(square) == square % 2 = 1

\* _Board.get_square_color
get_square_color(square) == (square % 2) # ((square \div 8) % 2)

\* CreateGifFromPGN._get_square_color
_get_square_color(square) == (square % 2) # ((square \div 8) % 2)

\* chess.square_rank and chess.square_file
square_rank(square) == square \div 8
square_file(square) == square % 8

\* a Python number that is an integer or an integer and a half
Halves(n) == IF n % 2 = 0 THEN [num |-> n \div 2, den |-> 1] ELSE [num |-> n, den |-> 2]
Whole(n) == [num |-> n, den |-> 1]

\* _Board.get_square_position: int() of the sum, the top-left corner or the centre
get_square_position(self, square, center) ==
    LET row == Abs(square_rank(square) - (IF self.reverse THEN 0 ELSE 7))
        column == Abs(square_file(square) - (IF self.reverse THEN 7 ELSE 0))
        half == IF center THEN self._sq_size ELSE 0
    IN  << Whole((2 * column * self._sq_size + half) \div 2),
           Whole((2 * row * self._sq_size + half) \div 2) >>

\* CreateGifFromPGN._get_square_position: the sum as it is, sq_size/2 being a
\* true division
_get_square_position(self, square, center) ==
    LET row == Abs(square_rank(square) - (IF self._reverse THEN 0 ELSE 7))
        column == Abs(square_file(square) - (IF self._reverse THEN 7 ELSE 0))
        half == IF center THEN self._sq_size ELSE 0
    IN  << Halves(2 * column * self._sq_size + half),
           Halves(2 * row * self._sq_size + half) >>

\* the setter without its last line: the memo of square images is kept
BoardSizeKeepingMemo(self, bsize) ==
    [self EXCEPT !._board_size = (bsize \div 8) * 8,
                 !._sq_size = ((bsize \div 8) * 8) \div 8]

\* _Board.board_size (setter)
Board_set_board_size(self, bsize) ==
    [self EXCEPT !._board_size = (bsize \div 8) * 8,
                 !._sq_size = ((bsize \div 8) * 8) \div 8,
                 !._square_images = << >>]

\* _Board.get_square_image: the memo after the call
get_square_image(self, square) ==
    LET color == get_square_color(square)
    IN  IF \E i \in 1..Len(self._square_images) : self._square_images[i].color = color
        THEN self
        ELSE [self EXCEPT !._square_images =
                  Append(@, [ color |-> color, size |-> self._sq_size,
                              fill |-> square_color(self._square_colors, color) ])]

\* _Board.draw_board: draw_square for the 64 squares of chess.SQUARES, a1
\* first.  Each square's image is fetched (and memoised) before the next one.
RECURSIVE DrawFrom(_, _)
DrawFrom(self, square) ==
    IF square > 63 THEN self
    ELSE LET drawn == get_square_image(self, square)
         IN  IF Len(drawn._square_images) >= 0
             THEN DrawFrom(drawn, square + 1)
             ELSE drawn

draw_squares(self) == DrawFrom(self, 0)

\* _Board.__init__ with a BoardTheme or None; the board setter ends with draw_board
New_Board(size, reverse, colors, piece_theme) ==
    draw_squares(
        [ _board_size |-> (size \div 8) * 8,
          _sq_size |-> ((size \div 8) * 8) \div 8,
          reverse |-> reverse,
          _square_colors |-> IF colors.k = "None" THEN DefaultTheme ELSE colors,
          _piece_theme |-> piece_theme,
          _square_images |-> << >> ])

Board_board_size_setter(bsize) ==
    /\ unit = "board"
    /\ board # NotBuilt
    /\ board' = Board_set_board_size(board, bsize)
    /\ call' = Called("_Board.board_size", bsize, "none")
    /\ UNCHANGED <<unit, game, gif, pc, frames, captures, canvas, bar, graph, pgn, lines>>

Board_square_colors_setter(colors) ==
    /\ unit = "board"
    /\ board # NotBuilt
    /\ IF IsBoardTheme(colors)
       THEN /\ board' = [board EXCEPT !._square_colors = colors, !._square_images = << >>]
            /\ call' = Called("_Board.square_colors", colors, "none")
       ELSE /\ board' = board
            /\ call' = Called("_Board.square_colors", colors, "ValueError")
    /\ UNCHANGED <<unit, game, gif, pc, frames, captures, canvas, bar, graph, pgn, lines>>

draw_square(square) ==
    /\ unit = "board"
    /\ board # NotBuilt
    /\ board' = get_square_image(board, square)
    /\ call' = Called("draw_square", square, "none")
    /\ UNCHANGED <<unit, game, gif, pc, frames, captures, canvas, bar, graph, pgn, lines>>

board_get_square_color(square) ==
    /\ unit = "helpers"
    /\ Unasked
    /\ board # NotBuilt
    /\ call' = Returned("get_square_color", square, get_square_color(square))
    /\ UNCHANGED <<unit, game, gif, pc, frames, captures, canvas, bar, graph, board, pgn, lines>>

board_get_square_position(square, center) ==
    /\ unit = "helpers"
    /\ Unasked
    /\ board # NotBuilt
    /\ call' = Returned("get_square_position", << square, center >>,
                        get_square_position(board, square, center))
    /\ UNCHANGED <<unit, game, gif, pc, frames, captures, canvas, bar, graph, board, pgn, lines>>

gif_get_square_color(square) ==
    /\ unit = "helpers"
    /\ Unasked
    /\ call' = Returned("_get_square_color", square, _get_square_color(square))
    /\ UNCHANGED <<unit, game, gif, pc, frames, captures, canvas, bar, graph, board, pgn, lines>>

gif_get_square_position(square, center) ==
    /\ unit = "helpers"
    /\ Unasked
    /\ call' = Returned("_get_square_position", << square, center >>,
                        _get_square_position(gif, square, center))
    /\ UNCHANGED <<unit, game, gif, pc, frames, captures, canvas, bar, graph, board, pgn, lines>>

draw_board ==
    /\ unit = "board"
    /\ board # NotBuilt
    /\ board' = draw_squares(board)
    /\ call' = Called("draw_board", 0, "none")
    /\ UNCHANGED <<unit, game, gif, pc, frames, captures, canvas, bar, graph, pgn, lines>>

(***************************************************************************)
(* utils.PGN and the constructor of CreateGifFromPGN                       *)
(***************************************************************************)
\* PGN.__init__: stores the game
New_PGN(g) == [_game_root |-> g]

\* PGN.has_analysis from node i on: a node without evaluation ends the walk,
\* with True if its board is checkmate
RECURSIVE PGNHasAnalysisFrom(_, _)
PGNHasAnalysisFrom(g, i) ==
    IF g[i].eval = NoEval THEN g[i].checkmate
    ELSE IF i = Len(g) THEN TRUE
    ELSE PGNHasAnalysisFrom(g, i + 1)

\* PGN.has_analysis; game.eval() on None raises AttributeError
has_analysis(self) ==
    IF self._game_root = NoGame
    THEN [raised |-> "AttributeError", ret |-> FALSE]
    ELSE [raised |-> "none", ret |-> PGNHasAnalysisFrom(self._game_root, 1)]

\* CreateGifFromPGN.__init__: the checks on the game, then the object
New_CreateGifFromPGN(g) ==
    IF g = NoGame
    THEN [raised |-> "ValueError", message |-> "Provided game is not valid/empty",
          object |-> NotBuilt]
    ELSE IF EndPly(g) < 1
    THEN [raised |-> "ValueError", message |-> "Provided game does not have any moves.",
          object |-> NotBuilt]
    ELSE [raised |-> "none", message |-> "", object |-> NewGif]

PGN_has_analysis ==
    /\ unit = "pgn"
    /\ Unasked
    /\ pgn # NotBuilt
    /\ LET r == has_analysis(pgn)
       IN  call' = [op |-> "PGN.has_analysis", arg |-> 0, raised |-> r.raised, ret |-> r.ret]
    /\ UNCHANGED <<unit, game, gif, pc, frames, captures, canvas, bar, graph, board, pgn, lines>>

gif_pgn_has_analysis ==
    /\ unit = "pgn"
    /\ Unasked
    /\ gif # NotBuilt
    /\ call' = Returned("pgn_has_analysis", 0, pgn_has_analysis(game))
    /\ UNCHANGED <<unit, game, gif, pc, frames, captures, canvas, bar, graph, board, pgn, lines>>

(***************************************************************************)
(* geometry.py: shorten_line                                               *)
(* dx and dy become floats as soon as they are divided by the length, so   *)
(* the returned coordinates are doubles.  A Python number is kept as its   *)
(* floor and, when it is not an integer, the double's mantissa and         *)
(* exponent: [floor |-> 3, frac |-> << >>] is 3 and 3.0 alike, which Python *)
(* compares equal.                                                         *)
(***************************************************************************)
Digit(a, i) == IF i <= Len(a) THEN a[i] ELSE 0

Longest(a, b) == IF Len(a) >= Len(b) THEN Len(a) ELSE Len(b)

RECURSIVE AddFrom(_, _, _, _)
AddFrom(a, b, i, carry) ==
    IF i > Longest(a, b) THEN (IF carry = 0 THEN << >> ELSE << carry >>)
    ELSE LET t == Digit(a, i) + Digit(b, i) + carry
         IN  << t % Limb >> \o AddFrom(a, b, i + 1, t \div Limb)

\* a + b on limb sequences
BigAdd(a, b) == AddFrom(a, b, 1, 0)

RECURSIVE SubFrom(_, _, _, _)
SubFrom(a, b, i, borrow) ==
    IF i > Longest(a, b) THEN << >>
    ELSE LET t == Digit(a, i) - Digit(b, i) - borrow
         IN  IF t < 0 THEN << t + Limb >> \o SubFrom(a, b, i + 1, 1)
             ELSE << t >> \o SubFrom(a, b, i + 1, 0)

\* a - b on limb sequences, for a >= b
BigSub(a, b) == SubFrom(a, b, 1, 0)

RECURSIVE LessFrom(_, _, _)
LessFrom(a, b, i) ==
    IF i = 0 THEN FALSE
    ELSE IF Digit(a, i) # Digit(b, i) THEN Digit(a, i) < Digit(b, i)
    ELSE LessFrom(a, b, i - 1)

\* a < b on limb sequences
BigLess(a, b) == LessFrom(a, b, Longest(a, b))

\* a natural m / 2^e rounded to 53 significant bits
Round53(m, e) ==
    LET t == BitLength(m) - 53
    IN  IF t <= 0 THEN [m |-> m, e |-> e]
        ELSE [m |-> MulSmall(RoundNearestEven(DivSmall(m, 2 ^ t), 2 ^ t), 2 ^ t),
              e |-> e]

Signed(neg, f) == [neg |-> neg, m |-> f.m, e |-> f.e]

FloatZero == [neg |-> FALSE, m |-> << >>, e |-> 0]

IsFloatZero(f) == BitLength(f.m) = 0

\* the double (d / l) * k for integers d, k and l > 0: d / l is rounded, then
\* the product is rounded
DivThenMul(d, l, k) ==
    IF d = 0 \/ k = 0 THEN FloatZero
    ELSE Signed((d < 0) # (k < 0), FloatMul(FloatDiv(Abs(d), l), Abs(k)))

\* the double c + f for an integer c and a double f
FloatAdd(c, f) ==
    IF IsFloatZero(f) THEN [neg |-> c < 0, m |-> << Abs(c) >>, e |-> 0]
    ELSE LET whole == ShiftLeft(Abs(c), f.e)
         IN  IF (c < 0) = f.neg \/ c = 0
             THEN Signed(f.neg, Round53(BigAdd(whole, f.m), f.e))
             ELSE IF BigLess(whole, f.m)
             THEN Signed(f.neg, Round53(BigSub(f.m, whole), f.e))
             ELSE Signed(c < 0, Round53(BigSub(whole, f.m), f.e))

\* a Python int
PyNumber(n) == [floor |-> n, frac |-> << >>]

\* a double written with a mantissa of exactly 53 bits
Normal(f) ==
    LET t == BitLength(f.m) - 53
        m == IF t >= 0 THEN DivSmall(f.m, 2 ^ t).q
             ELSE [i \in 1..((-t) \div 15) |-> 0] \o MulSmall(f.m, 2 ^ ((-t) % 15))
    IN  << f.neg, SubSeq(m, 1, 4), f.e - t >>

\* a Python float
PyFloat(f) ==
    LET v == FloatFloor(f)
    IN  IF v.exact THEN PyNumber(IF f.neg THEN -v.floor ELSE v.floor)
        ELSE [floor |-> IF f.neg THEN -v.floor - 1 ELSE v.floor,
              frac |-> Normal(f)]

\* math.sqrt on the perfect squares, where the double result is exact
IsSquare(n) == \E r \in 0..n : r * r = n
sqrt(n) == CHOOSE r \in 0..n : r * r = n

shorten_line(c1, c2, pix) ==
    LET dx == c2[1] - c1[1]
        dy == c2[2] - c1[2]
        l == sqrt(dx * dx + dy * dy)
        sx == IF l > 0 THEN DivThenMul(dx, l, l - pix) ELSE FloatZero
        sy == IF l > 0 THEN DivThenMul(dy, l, l - pix) ELSE FloatZero
    IN  << c1, << PyFloat(FloatAdd(c1[1], sx)), PyFloat(FloatAdd(c1[2], sy)) >> >>

geometry_shorten_line(pix) ==
    /\ unit = "shorten"
    /\ Unasked
    /\ call' = [op |-> "shorten_line", arg |-> << lines[1][1], lines[1][2], pix >>,
                raised |-> "none",
                ret |-> shorten_line(lines[1][1], lines[1][2], pix)]
    /\ UNCHANGED <<unit, game, gif, pc, frames, captures, canvas, bar, graph, board, pgn, lines>>

(***************************************************************************)
(* geometry.py: line_intersection                                          *)
(* The determinants are Python ints; each coordinate is one true division  *)
(* of two ints, that is the double nearest to the quotient.                *)
(***************************************************************************)
DetPlus(a, b) == a[1] * b[2] + a[2] * b[1]

det(a, b) == a[1] * b[2] - a[2] * b[1]

\* n / d for ints n and d # 0
TrueDiv(n, d) ==
    IF n = 0 THEN PyNumber(0)
    ELSE PyFloat(Signed((n < 0) # (d < 0), FloatDiv(Abs(n), Abs(d))))

line_intersection(line1, line2) ==
    LET xdiff == << line1[1][1] - line1[2][1], line2[1][1] - line2[2][1] >>
        ydiff == << line1[1][2] - line1[2][2], line2[1][2] - line2[2][2] >>
        div == det(xdiff, ydiff)
        d == << det(line1[1], line1[2]), det(line2[1], line2[2]) >>
    IN  IF div = 0 THEN PyNone
        ELSE [k |-> "tuple",
              v |-> << TrueDiv(det(d, xdiff), div), TrueDiv(det(d, ydiff), div) >>]

\* line_intersection(line1, line2), or with the two lines exchanged
geometry_line_intersection(swap) ==
    /\ unit = "intersect"
    /\ Unasked
    /\ LET line1 == IF swap THEN lines[2] ELSE lines[1]
           line2 == IF swap THEN lines[1] ELSE lines[2]
       IN  call' = [op |-> "line_intersection", arg |-> << line1, line2 >>,
                    raised |-> "none", ret |-> line_intersection(line1, line2)]
    /\ UNCHANGED <<unit, game, gif, pc, frames, captures, canvas, bar, graph, board, pgn, lines>>

(***************************************************************************)
(* _draw_graph_background, of _Graph and of CreateGifFromPGN: the polygons *)
(* filled between the curve and the zero line, one ply after the other.    *)
(* Then generate, which draws the background before its first frame.       *)
(***************************************************************************)
DarkShade == "#514f4c"
LightShade == "#7f7e7c"

\* an int point, its coordinates as Python numbers
PyPoint(c) == << PyNumber(c[1]), PyNumber(c[2]) >>

\* the draw.polygon calls of one ply, given the curve's points, the zero
\* line's points and the scores, all by ply.  line_intersection returns None
\* for a curve segment that lies on the zero line's row; PIL refuses a point
\* list holding None with TypeError.
Fills(points, zeros, scores, move_num) ==
    LET evalu == scores[move_num]
        prev_evalu == scores[move_num - 1]
        zprev == zeros[move_num - 1]
        znew == zeros[move_num]
        zinter == line_intersection(<< points[move_num - 1], points[move_num] >>,
                                    << zprev, znew >>)
    IN  IF evalu * prev_evalu < 0
        THEN IF zinter = PyNone
             THEN [ raised |-> "TypeError", polygons |-> << >> ]
             ELSE [ raised |-> "none",
                    polygons |->
                      << [ xy |-> << PyPoint(zprev), PyPoint(points[move_num - 1]), zinter.v >>,
                           fill |-> IF prev_evalu < 0 THEN DarkShade ELSE LightShade ],
                         [ xy |-> << zinter.v, PyPoint(points[move_num]), PyPoint(znew) >>,
                           fill |-> IF evalu < 0 THEN DarkShade ELSE LightShade ] >> ]
        ELSE [ raised |-> "none",
               polygons |->
                 << [ xy |-> << PyPoint(zprev), PyPoint(points[move_num - 1]),
                               PyPoint(points[move_num]), PyPoint(znew) >>,
                      fill |-> IF evalu = 0
                               THEN (IF prev_evalu < 0 THEN DarkShade ELSE LightShade)
                               ELSE (IF evalu < 0 THEN DarkShade ELSE LightShade) ] >> ]

\* the loop over the plies move_num..last: the polygons of each ply, up to
\* the first call that raises
RECURSIVE FillsFrom(_, _, _, _, _)
FillsFrom(points, zeros, scores, move_num, last) ==
    IF move_num > last THEN [ raised |-> "none", fills |-> << >> ]
    ELSE LET f == Fills(points, zeros, scores, move_num)
         IN  IF f.raised # "none" THEN [ raised |-> f.raised, fills |-> << >> ]
             ELSE LET rest == FillsFrom(points, zeros, scores, move_num + 1, last)
                  IN  [ raised |-> rest.raised, fills |-> << f.polygons >> \o rest.fills ]

\* _Graph._draw_graph_background, on a game with an evaluation at every node
Graph_draw_graph_background(self) ==
    LET g == self._game_root
        plies == RootPly(g)..LastPly(g)
    IN  FillsFrom([k \in plies |-> Graph_get_graph_position(self, NodeAt(g, k).eval, k)],
                  [k \in plies |-> Graph_get_graph_position(self, Cp(0), k)],
                  [k \in plies |-> score(NodeAt(g, k).eval, self._max_eval)],
                  RootPly(g) + 1, LastPly(g))

\* _Graph.__init__; _draw_graph_background fills _eval_at_move, one entry per
\* node of the main line, keyed by its ply, and its raster is kept as
\* _background.  When the drawing raises, so does the constructor.
GraphWith(self, drawing) ==
    IF drawing.raised # "none" THEN NotBuilt
    ELSE [ _game_root |-> self._game_root,
           _aa_factor |-> AaFactor,
           _output_size |-> self._output_size,
           _width |-> self._width,
           _height |-> self._height,
           _line_width |-> self._line_width,
           _max_eval |-> self._max_eval,
           _eval_at_move |-> [k \in RootPly(self._game_root)..LastPly(self._game_root)
                                  |-> NodeAt(self._game_root, k).eval],
           _background |-> [ fills |-> drawing.fills, markers |-> << >>,
                             drawn |-> << self._width, self._height >>,
                             size |-> << self._width, self._height >> ] ]
Drawn(self) == GraphWith(self, Graph_draw_graph_background(self))
New_Graph(g, size, max_eval, line_width) ==
    Drawn([ _game_root |-> g,
            _output_size |-> size,
            _width |-> size[1] * AaFactor,
            _height |-> size[2] * AaFactor,
            _line_width |-> line_width * AaFactor,
            _max_eval |-> max_eval ])

\* a call of _Graph.at_move
at_move(move_num) ==
    /\ unit \in {"graph", "rooted"}
    /\ graph # NotBuilt
    /\ Unasked \/ (unit = "rooted" /\ call.op = "at_move")
    /\ \E r \in {Graph_at_move(graph, move_num)} :
          /\ call' = [op |-> "at_move", arg |-> move_num, raised |-> r.raised,
                      ret |-> [message |-> r.message, marker |-> r.marker,
                               size |-> r.size, image |-> r.image]]
          /\ graph' = r.self
    /\ UNCHANGED <<unit, game, gif, pc, frames, captures, canvas, bar, board, pgn, lines>>

\* the size of the raster CreateGifFromPGN._draw_graph_background draws on
GraphImageSize(self) ==
    << self._board_size + OrZero(self._bar_size), self._graph_size.v >>

\* CreateGifFromPGN._draw_graph_background; reading game.eval().white() of a
\* node without evaluation raises AttributeError
_draw_graph_background(self, g) ==
    LET plies == 0..EndPly(g)
        missing == { k \in plies : g[k + 1].eval = NoEval }
        last == IF missing = {} THEN EndPly(g)
                ELSE (CHOOSE k \in missing : \A j \in missing : k <= j) - 1
        drawn == FillsFrom([k \in plies |-> _get_graph_position(self, g, g[k + 1].eval, k)],
                           [k \in plies |-> _get_graph_position(self, g, Cp(0), k)],
                           [k \in plies |-> score(g[k + 1].eval, self._max_eval)],
                           1, last)
    IN  [ raised |-> IF drawn.raised # "none" THEN drawn.raised
                     ELSE IF missing # {} THEN "AttributeError" ELSE "none",
          fills |-> drawn.fills,
          size |-> GraphImageSize(self) ]

\* self._board.turn at the node of the given ply: chess.WHITE (True) is to
\* move at the root and the sides alternate
BoardTurn(ply) == ply % 2 = 0

\* a capture that appends whatever stands on the destination square
CapturedAtDestination(g, ply) ==
    IF ply > 0 /\ g[ply + 1].capture # "none" THEN << g[ply + 1].victim >> ELSE << >>

\* generate's capture step for the node of the given ply: what is appended to
\* `captures`.  Only the root has no move.
Captured(g, ply) ==
    IF ply > 0 /\ g[ply + 1].capture # "none"
    THEN IF g[ply + 1].capture = "en_passant"
         THEN << Piece("PAWN", BoardTurn(ply)) >>
         ELSE << g[ply + 1].victim >>
    ELSE << >>

\* a Wdl seen from the given side
PovWdl(w, color) == IF color THEN w ELSE << w[3], w[2], w[1] >>

\* Wdl.expectation() = (wins + 0.5*draws)/total, as the fraction
\* (2*wins + draws)/(2*total) that the one division rounds
Expectation(w) == [num |-> 2 * w[1] + w[2], den |-> 2 * (w[1] + w[2] + w[3])]

\* c - p < -t in doubles, for doubles p > c > 0 and t > 0
FloatDrop(c, p, t) ==
    LET d == Round53(BigSub(MulSmall(p.m, 2 ^ (c.e - p.e)), c.m), c.e)
        top == IF d.e > t.e THEN d.e ELSE t.e
    IN  BigLess(MulSmall(t.m, 2 ^ (top - t.e)), MulSmall(d.m, 2 ^ (top - d.e)))

\* curr.expectation() - prev.expectation() < -tenths/10, the right side being
\* the float literal -0.1, -0.2 or -0.3.  Both totals are 1000; away from the
\* threshold the rounding of the three doubles (below 10^-15) cannot change
\* the comparison of two multiples of 1/2000
ChangeBelow(curr, prev, tenths) ==
    LET c == Expectation(curr)
        p == Expectation(prev)
    IN  IF 10 * (c.num - p.num) # -tenths * c.den
        THEN 10 * (c.num - p.num) < -tenths * c.den
        ELSE IF c.num = 0 THEN FALSE
        ELSE FloatDrop(FloatDiv(c.num, c.den), FloatDiv(p.num, p.den), FloatDiv(tenths, 10))

\* _draw_nag's classification of the change in expectation
NagOf(curr, prev) ==
    IF ChangeBelow(curr, prev, 3) THEN "blunder"
    ELSE IF ChangeBelow(curr, prev, 2) THEN "mistake"
    ELSE IF ChangeBelow(curr, prev, 1) THEN "inaccuracy"
    ELSE "None"

\* an icon offset that is the same in every column and row
NagBoxUnflipped(self, square) ==
    LET at == _get_square_position(self, square, FALSE)
    IN  [ x |-> at[1].num + (3 * self._sq_size) \div 4,
          y |-> at[2].num - self._sq_size \div 4,
          size |-> self._sq_size \div 2 ]

\* where _draw_nag pastes the icon for a move to the given square, and the
\* icon's side; int() of the products, which are exact, is their floor
NagBox(self, square) ==
    LET at == _get_square_position(self, square, FALSE)
        x == at[1].num
        y == at[2].num
    IN  [ x |-> x + (IF x < self._sq_size * 7 THEN (3 * self._sq_size) \div 4
                     ELSE self._sq_size \div 2),
          y |-> y - (IF y > 0 THEN self._sq_size \div 4 ELSE 0),
          size |-> self._sq_size \div 2 ]

\* CreateGifFromPGN._draw_nag for the node self._game of game g: the icons
\* pasted on the board image.  prev is the parent's evaluation relative to its
\* side to move, curr this node's from the side that is not to move.
_draw_nag(self, g) ==
    IF self._game = 0 THEN << >>
    ELSE LET mover == ~BoardTurn(self._game)
             prev == PovWdl(g[self._game].wdl, BoardTurn(self._game - 1))
             curr == PovWdl(g[self._game + 1].wdl, mover)
             nag == NagOf(curr, prev)
         IN  IF nag = "None" THEN << >>
             ELSE << [ nag |-> nag, box |-> NagBox(self, g[self._game + 1].to_square) ] >>

\* _Board.draw_nag: the icon pasted on the canvas
Board_draw_nag(self, nag, square) ==
    LET at == get_square_position(self, square, FALSE)
        x == at[1].num
        y == at[2].num
    IN  [ nag |-> nag,
          box |-> [ x |-> x + (IF x < self._sq_size * 7 THEN (3 * self._sq_size) \div 4
                               ELSE self._sq_size \div 2),
                    y |-> y - (IF y > 0 THEN self._sq_size \div 4 ELSE 0),
                    size |-> self._sq_size \div 2 ] ]

\* calls of the two: _draw_nag as generate calls it at the node of a move to
\* the given square
board_draw_nag(nag, square) ==
    /\ unit = "helpers"
    /\ Unasked
    /\ board # NotBuilt
    /\ call' = Returned("draw_nag", square, << Board_draw_nag(board, nag, square) >>)
    /\ UNCHANGED <<unit, game, gif, pc, frames, captures, canvas, bar, graph, board, pgn, lines>>

gif_draw_nag(square) ==
    /\ unit = "helpers"
    /\ Unasked
    /\ call' = Returned("_draw_nag", square,
                        _draw_nag([gif EXCEPT !._game = 1],
                                  [game EXCEPT ![2].to_square = square]))
    /\ UNCHANGED <<unit, game, gif, pc, frames, captures, canvas, bar, graph, board, pgn, lines>>

\* CreateGifFromPGN._draw_arrow: Coord(from_crd) hands the NamedTuple one
\* argument, a tuple, for its two fields; the call raises TypeError after the
\* line is drawn on a mask that is then dropped
_draw_arrow(self, from_sqare, to_square, color) ==
    [ raised |-> "TypeError", arrows |-> << >> ]

\* the arrows of generate for the node self._game: the move, then one per
\* checker towards the king of the side to move, up to the first call that raises
RECURSIVE CheckArrows(_, _, _)
CheckArrows(self, node, i) ==
    IF i > Len(node.checkers) THEN [ raised |-> "none", arrows |-> << >> ]
    ELSE LET a == _draw_arrow(self, node.checkers[i], node.king, "red")
         IN  IF a.raised # "none" THEN a
             ELSE LET rest == CheckArrows(self, node, i + 1)
                  IN  [ raised |-> rest.raised, arrows |-> a.arrows \o rest.arrows ]

Arrows(self, g) ==
    LET node == g[self._game + 1]
        a == _draw_arrow(self, node.from_square, node.to_square, "blue")
    IN  IF ~self._arrows \/ self._game = 0 THEN [ raised |-> "none", arrows |-> << >> ]
        ELSE IF a.raised # "none" THEN a
        ELSE [ raised |-> CheckArrows(self, node, 1).raised,
               arrows |-> a.arrows \o CheckArrows(self, node, 1).arrows ]

\* the clock dict of _draw_headers for the node self._game: the side that is
\* not to move gets the node's clock, the side to move its parent's, or None
\* at the root
Clocks(self, g) ==
    LET own == g[self._game + 1].clock
        other == IF self._game = 0 THEN PyNone ELSE g[self._game].clock
    IN  IF BoardTurn(self._game) THEN [ white |-> other, black |-> own ]
        ELSE [ white |-> own, black |-> other ]

\* the body of generate's loop for the node self._game
GenerateFrame(self, g, caps) ==
    LET node == g[self._game + 1]
        captured == caps \o Captured(g, self._game)
        bar_size == OrZero(self._bar_size)
        graph_size == OrZero(self._graph_size)
        header_size == OrZero(self._header_size)
        size == _canvas_size(self)
        board_l == << Rect("board", 0, header_size, self._board_size, self._board_size) >>
        bar_l == IF IsNotNone(self._bar_size)
                 THEN << Rect("bar", self._board_size, header_size,
                              self._bar_size.v, self._board_size) >>
                 ELSE << >>
        graph_l == IF IsNotNone(self._graph_size)
                   THEN << Rect("graph", 0, size[2] - graph_size,
                                GraphImageSize(self)[1],
                                GraphImageSize(self)[2]) >>
                   ELSE << >>
        headers_l == IF IsNotNone(self._header_size)
                     THEN << Rect("white", 0,
                                  IF self._reverse THEN 0 ELSE header_size + self._board_size,
                                  size[1], self._header_size.v),
                             Rect("black", 0,
                                  IF self._reverse THEN header_size + self._board_size ELSE 0,
                                  size[1], self._header_size.v) >>
                     ELSE << >>
        reads_eval == IsNotNone(self._bar_size) \/ IsNotNone(self._graph_size)
        arrows == Arrows(self, g)
    IN  [ raised |-> IF arrows.raised # "none" THEN arrows.raised
                     ELSE IF reads_eval /\ node.eval = NoEval THEN "AttributeError"
                     ELSE "none",
          captures |-> captured,
          frame |-> [ ply |-> self._game,
                      size |-> size,
                      captures |-> IF IsNotNone(self._header_size)
                                   THEN captured ELSE << >>,
                      arrows |-> arrows.arrows,
                      nags |-> IF self._nag THEN _draw_nag(self, g) ELSE << >>,
                      clock |-> IF IsNotNone(self._header_size)
                                THEN Clocks(self, g)
                                ELSE [ white |-> PyNone, black |-> PyNone ],
                      layers |-> board_l \o bar_l \o graph_l \o headers_l ] ]

\* generate, up to the start of the loop
generate_start ==
    /\ GenerateUnit
    /\ pc = "idle"
    /\ IF IsNotNone(gif._graph_size) /\ _draw_graph_background(gif, game).raised # "none"
       THEN /\ call' = Called("generate", 0, _draw_graph_background(gif, game).raised)
            /\ pc' = "idle"
            /\ gif' = gif
       ELSE /\ call' = Called("generate", 0, "none")
            /\ pc' = "loop"
            /\ gif' = [gif EXCEPT !._game = 0]
    /\ frames' = << >>
    /\ captures' = << >>
    /\ UNCHANGED <<game, Others>>

\* one pass of generate's loop
generate_frame ==
    /\ GenerateUnit
    /\ pc = "loop"
    /\ \E r \in {GenerateFrame(gif, game, captures)} :
          IF r.raised # "none"
          THEN /\ call' = Called("generate", 0, r.raised)
               /\ pc' = "idle"
               /\ frames' = << >>
               /\ captures' = << >>
               /\ gif' = gif
          ELSE /\ frames' = Append(frames, r.frame)
               /\ captures' = r.captures
               /\ call' = call
               /\ IF gif._game = EndPly(game)
                  THEN pc' = "hold" /\ gif' = gif
                  ELSE pc' = "loop" /\ gif' = [gif EXCEPT !._game = @ + 1]
    /\ UNCHANGED <<game, Others>>

\* generate, after the loop: the last frame is held
generate_hold ==
    /\ GenerateUnit
    /\ pc = "hold"
    /\ frames' = frames \o [i \in 1..HoldFrames |-> frames[Len(frames)]]
    /\ pc' = "save"
    /\ UNCHANGED <<game, gif, call, captures, Others>>

\* generate hands the list to the encoder and returns; its locals are gone
generate_save ==
    /\ GenerateUnit
    /\ pc = "save"
    /\ frames' = << >>
    /\ captures' = << >>
    /\ pc' = "idle"
    /\ UNCHANGED <<game, gif, call, Others>>

\* CreateGifFromPGN._draw_graph_point
_draw_graph_point(self, g, evalu, move_num) ==
    IF move_num > EndPly(g)
    THEN [ raised |-> "MoveOutOfRangeError",
           message |-> OutOfRangeMessage(move_num, EndPly(g)),
           marker |-> << >>, size |-> << >> ]
    ELSE [ raised |-> "none", message |-> << >>,
           marker |-> _get_graph_position(self, g, evalu, move_num),
           size |-> GraphImageSize(self) ]

draw_graph_point(evalu, move_num) ==
    /\ unit = "graph"
    /\ Unasked
    /\ LET r == _draw_graph_point(gif, game, evalu, move_num)
       IN  call' = [op |-> "_draw_graph_point", arg |-> move_num,
                    raised |-> r.raised, ret |-> r]
    /\ UNCHANGED <<unit, game, gif, pc, frames, captures, canvas, bar, graph, board, pgn, lines>>

graph_draw_graph_background ==
    /\ unit = "graph"
    /\ graph # NotBuilt
    /\ Unasked
    /\ LET r == Graph_draw_graph_background(graph)
       IN  call' = [op |-> "_Graph._draw_graph_background", arg |-> 0,
                    raised |-> r.raised, ret |-> r.fills]
    /\ UNCHANGED <<unit, game, gif, pc, frames, captures, canvas, bar, graph, board, pgn, lines>>

gif_draw_graph_background ==
    /\ unit = "graph"
    /\ Unasked
    /\ LET r == _draw_graph_background(gif, game)
       IN  call' = [op |-> "_draw_graph_background", arg |-> 0,
                    raised |-> r.raised, ret |-> r.fills]
    /\ UNCHANGED <<unit, game, gif, pc, frames, captures, canvas, bar, graph, board, pgn, lines>>

(***************************************************************************)
(* The specification.                                                      *)
(***************************************************************************)
BoardPx == {0, 7, 8, MaxBoardPx}

\* the squares drawn one at a time on a board renderer: the corners, the
\* centre and a square of each colour beside them
SquaresDrawn == {0, 1, 7, 27, 28, 56, 63}

\* the inputs of the operations of one class are drawn while that class is
\* the one exercised
For(units, inputs) == IF unit \in units THEN inputs ELSE {}
Sizes == 1..MaxSize
\* the sizes given to the three add_ calls of CreateGifFromPGN: a different
\* width and height, so that the layers of a frame tell themselves apart
BarWidths == {MaxSize}
GraphHeights == {1}
HeaderHeights == {MaxSize}

InitGif ==
    /\ unit = "gif"
    /\ game \in Games
    /\ gif = NewGif
    /\ pc = "idle"
    /\ frames = << >>
    /\ captures = << >>
    /\ pgn = NotBuilt
    /\ lines = << >>
    /\ call = NoCall
    /\ canvas = NotBuilt
    /\ bar = NotBuilt
    /\ graph = NotBuilt
    /\ board = NotBuilt

\* the rasters of the layers are sized from a board size the board renderer
\* can have: a multiple of 8
BoardSizes == {b \in BoardPx : b % 8 = 0}
Optional(S) == {PyNone} \cup {PyInt(n) : n \in S}

InitCanvas ==
    /\ unit = "canvas"
    /\ \E b \in BoardSizes, w \in Optional(Sizes), h \in Optional(Sizes),
          hd \in Optional(Sizes), r \in BOOLEAN :
          canvas = New_Canvas(b, w, h, hd, r)
    /\ game = << >>
    /\ gif = NotBuilt
    /\ pc = "idle"
    /\ frames = << >>
    /\ captures = << >>
    /\ pgn = NotBuilt
    /\ lines = << >>
    /\ call = NoCall
    /\ bar = NotBuilt
    /\ graph = NotBuilt
    /\ board = NotBuilt

MaxEval == 3        \* largest max_eval given to the bar and the graph
MaxMate == 2        \* longest mate distance
MaxEvals == 1..MaxEval
Scores ==
    {Cp(v) : v \in (-(MaxEval + 1))..(MaxEval + 1)}
        \cup {Mate(n) : n \in (-MaxMate)..MaxMate} \cup {MateGiven}

AnnotatedGames(E) == UNION {[1..(n + 1) -> {Node(e) : e \in E}] : n \in 1..MaxPly}

\* scores whose label is asked for: the bar's scores and centipawn values on
\* and beside the rounding ties of the printed tenths
LabelScores ==
    Scores \cup {Cp(v) : v \in {-1000, -75, -35, -25, 15, 25, 45, 125, 1000}}

InitBar ==
    /\ unit = "bar"
    /\ \E h \in BoardPx, m \in MaxEvals, r \in BOOLEAN :
          /\ bar = New_EvalBar(<< 1, h >>, m, r)
          /\ gif = [set_max_eval(set_board_size(NewGif, h), m) EXCEPT !._reverse = r]
    /\ game \in AnnotatedGames({Cp(0)})
    /\ Len(game) = 2
    /\ pc = "idle"
    /\ frames = << >>
    /\ captures = << >>
    /\ pgn = NotBuilt
    /\ lines = << >>
    /\ call = NoCall
    /\ canvas = NotBuilt
    /\ graph = NotBuilt
    /\ board = NotBuilt

GraphEvals == {Cp(-1), Cp(0), Cp(1)}
LongPly == 11       \* the length of the one long game
DefaultGraphHeight == 81

\* the ply numbers asked of a graph: those of the game, and two beyond each end
MoveNumsOf(g) == (RootPly(g) - 2)..(LastPly(g) + 2)

\* the score and ply pairs given to the position functions: every score at
\* the root, and every ply with a level score
PositionArgs(g) ==
    {<< e, RootPly(g) >> : e \in Scores} \cup {<< Cp(0), k >> : k \in MoveNumsOf(g)}

\* Small graphs over short games, and the graph CreateGifFromPGN would show
\* by default (board 480, height 81, max_eval 1000) for one long game.
\* graphs of games set up from a position after the first ply
MaxRootPly == 3     \* latest ply of a starting position
InitRooted ==
    /\ unit = "rooted"
    /\ \E g \in AnnotatedGames({Cp(-1), Cp(1)}), r \in 1..MaxRootPly :
          game = [g EXCEPT ![1].root_ply = r]
    /\ \E w \in Sizes, m \in MaxEvals : graph = New_Graph(game, << w, MaxSize >>, m, 1)
    /\ graph # NotBuilt
    /\ gif = NewGif
    /\ pc = "idle"
    /\ frames = << >>
    /\ captures = << >>
    /\ pgn = NotBuilt
    /\ lines = << >>
    /\ call = NoCall
    /\ canvas = NotBuilt
    /\ bar = NotBuilt
    /\ board = NotBuilt

InitGraph ==
    /\ unit = "graph"
    /\ \/ /\ game \in AnnotatedGames(GraphEvals)
          /\ \E w \in Sizes, h \in Sizes, m \in MaxEvals :
                /\ graph = New_Graph(game, << w, h >>, m, 1)
                /\ gif = [set_max_eval(set_board_size(NewGif, 8 * w), m)
                              EXCEPT !._graph_size = PyInt(h)]
       \/ /\ game = [i \in 1..(LongPly + 1) |-> Node(Cp(1))]
          /\ graph = New_Graph(game, << DefaultBoardSize, DefaultGraphHeight >>,
                               DefaultMaxEval, 1)
          /\ gif = [NewGif EXCEPT !._graph_size = PyInt(DefaultGraphHeight)]
    /\ pc = "idle"
    /\ frames = << >>
    /\ captures = << >>
    /\ pgn = NotBuilt
    /\ lines = << >>
    /\ call = NoCall
    /\ canvas = NotBuilt
    /\ bar = NotBuilt
    /\ board = NotBuilt

\* _Board(size, board, reverse, square_colors, piece_theme): anything but None
\* or a BoardTheme for square_colors raises ValueError and no object exists;
\* piece_theme is stored as given
PieceThemes == {"PieceTheme.ALPHA", "PieceTheme.CASES", "cases"}
PyNoneColors == [k |-> "None", white |-> "none", black |-> "none"]

InitBoard ==
    /\ unit = "board"
    /\ \E n \in BoardPx, r \in BOOLEAN, c \in ColorValues \cup {PyNoneColors},
          t \in PieceThemes :
          IF c.k = "None" \/ IsBoardTheme(c)
          THEN board = New_Board(n, r, c, t) /\ call = Called("_Board", c, "none")
          ELSE board = NotBuilt /\ call = Called("_Board", c, "ValueError")
    /\ game = << >>
    /\ gif = NotBuilt
    /\ pc = "idle"
    /\ frames = << >>
    /\ captures = << >>
    /\ pgn = NotBuilt
    /\ lines = << >>
    /\ canvas = NotBuilt
    /\ bar = NotBuilt
    /\ graph = NotBuilt

(***************************************************************************)
(* PGN.acpl: the average centipawn loss of each player.                    *)
(***************************************************************************)
\* min(max_eval, x, key=abs): the first of the two with the least magnitude
MinByAbs(max_eval, x) == IF Abs(x) < Abs(max_eval) THEN x ELSE max_eval

\* _eval(node).pov(color).score(mate_score=ms) for the node of a ply: the
\* annotation is White's view; a checkmate without annotation is Mate(0) for
\* the side to move, which negates to MateGiven
PovScoreOf(node, ply, color, ms) ==
    IF node.eval = NoEval
    THEN (IF color = BoardTurn(ply) THEN -ms ELSE ms)
    ELSE IF color THEN score(node.eval, ms) ELSE -score(node.eval, ms)

\* the loop's step at the node of a ply > root ply: the mover (not
\* game.turn()), the two limited evaluations and their difference
AcplStep(g, ply, max_eval) ==
    LET mover == ~BoardTurn(ply)
        curr_eval == MinByAbs(max_eval, PovScoreOf(NodeAt(g, ply), ply, mover, max_eval))
        prev_eval == MinByAbs(max_eval, PovScoreOf(NodeAt(g, ply - 1), ply - 1, mover, max_eval))
    IN  [ color |-> mover, curr_eval |-> curr_eval, prev_eval |-> prev_eval,
          change |-> curr_eval - prev_eval ]

\* acpl[color] after the loop: << sum of the changes, number of moves >>
RECURSIVE AcplOf(_, _, _, _)
AcplOf(g, color, ply, max_eval) ==
    IF ply = RootPly(g) THEN << 0, 0 >>
    ELSE LET rest == AcplOf(g, color, ply - 1, max_eval)
             step == AcplStep(g, ply, max_eval)
         IN  IF step.color = color THEN << rest[1] + step.change, rest[2] + 1 >> ELSE rest

\* int(total / count * -1): the double quotient, negated, cut towards zero
AverageLoss(total, count) ==
    IF total = 0 THEN 0
    ELSE LET cut == FloatFloor(FloatDiv(Abs(total), count)).floor
         IN  IF total > 0 THEN -cut ELSE cut

acpl(self, max_eval) ==
    LET g == self._game_root
        analysed == has_analysis(self)
        white == AcplOf(g, TRUE, LastPly(g), max_eval)
        black == AcplOf(g, FALSE, LastPly(g), max_eval)
    IN  IF analysed.raised # "none" THEN [raised |-> analysed.raised, ret |-> << >>, steps |-> << >>]
        ELSE IF ~analysed.ret THEN [raised |-> "MissingAnalysisError", ret |-> << >>, steps |-> << >>]
        ELSE IF white[2] = 0 \/ black[2] = 0
        THEN [raised |-> "ZeroDivisionError", ret |-> << >>, steps |-> << >>]
        ELSE [ raised |-> "none",
               ret |-> << [ white |-> AverageLoss(white[1], white[2]),
                            black |-> AverageLoss(black[1], black[2]) ] >>,
               steps |-> [k \in 1..(Len(g) - 1) |-> AcplStep(g, RootPly(g) + k, max_eval)] ]

PGN_acpl(max_eval) ==
    /\ unit = "pgn"
    /\ Unasked
    /\ pgn # NotBuilt
    /\ \E r \in {acpl(pgn, max_eval)} :
          call' = [op |-> "PGN.acpl", arg |-> max_eval, raised |-> r.raised,
                   ret |-> [value |-> r.ret, steps |-> r.steps]]
    /\ UNCHANGED <<unit, game, gif, pc, frames, captures, canvas, bar, graph, board, pgn, lines>>

\* the games given to acpl: evaluations within and beyond the default limit,
\* and forced mates
AcplEvals == {Cp(-1500), Cp(-1000), Cp(-500), Cp(500), Cp(1500), Mate(1), Mate(-1)}
AcplGames == AnnotatedGames(AcplEvals)

\* what read_game can hand to the constructors: nothing, a game without
\* moves, a game with moves; only the last position can be checkmate
PgnGames ==
    {NoGame} \cup {<< Node(e) >> : e \in EvalChoices}
        \cup Games \cup {EndingInMate(g) : g \in Games}

\* PGN(game) and CreateGifFromPGN(game) for the same game; `call` is the
\* constructor call of CreateGifFromPGN
InitPgn ==
    /\ unit = "pgn"
    /\ game \in PgnGames \cup AcplGames
    /\ pgn = New_PGN(game)
    /\ lines = << >>
    /\ gif = New_CreateGifFromPGN(game).object
    /\ call = [op |-> "__init__", arg |-> 0,
               raised |-> New_CreateGifFromPGN(game).raised,
               ret |-> New_CreateGifFromPGN(game).message]
    /\ pc = "idle"
    /\ frames = << >>
    /\ captures = << >>
    /\ canvas = NotBuilt
    /\ bar = NotBuilt
    /\ graph = NotBuilt
    /\ board = NotBuilt

\* the moves that can lead to the node of a ply: a quiet move, the capture
\* of a pawn or a queen of the side that is to move afterwards, an en-passant
\* capture (its destination square is empty)
MovesInto(ply) ==
    {<< "none", NoPiece >>, << "en_passant", NoPiece >>}
        \cup {<< "capture", Piece(t, BoardTurn(ply)) >> : t \in {"PAWN", "QUEEN"}}

\* games of 1..MaxPly moves, every node with the same evaluation
CaptureGames(e) ==
    UNION { { << Node(e) >> \o [k \in 1..n |-> MoveNode(e, m[k][1], m[k][2])] :
                m \in { f \in [1..n -> MovesInto(1) \cup MovesInto(2)] :
                            \A k \in 1..n : f[k] \in MovesInto(k) } } :
            n \in 1..MaxPly }

\* generate over games with captures, on a fresh object and after add_headers
InitPipeline ==
    /\ unit = "pipeline"
    /\ \E e \in EvalChoices : game \in CaptureGames(e)
    /\ gif \in {NewGif, [NewGif EXCEPT !._header_size = PyInt(1)]}
    /\ pc = "idle"
    /\ frames = << >>
    /\ captures = << >>
    /\ pgn = NotBuilt
    /\ lines = << >>
    /\ call = NoCall
    /\ canvas = NotBuilt
    /\ bar = NotBuilt
    /\ graph = NotBuilt
    /\ board = NotBuilt

\* the helper functions of CreateGifFromPGN and of _Board, on the default board
\* and on the boards a board_size assignment leaves, in both orientations
\* boards with squares of 2, 3, 5 and 7 pixels
WiderBoards == {16, 24, 40, 56}

InitHelpers ==
    /\ unit = "helpers"
    /\ game = << Node(Mate(1)), Node(Mate(-1)) >>
    /\ \E r \in BOOLEAN :
          gif \in {[NewGif EXCEPT !._reverse = r]}
                    \cup {[set_board_size(NewGif, n) EXCEPT !._reverse = r] :
                              n \in BoardPx \cup WiderBoards}
    /\ pc = "idle"
    /\ frames = << >>
    /\ captures = << >>
    /\ pgn = NotBuilt
    /\ lines = << >>
    /\ call = NoCall
    /\ canvas = NotBuilt
    /\ bar = NotBuilt
    /\ graph = NotBuilt
    /\ board = New_Board(gif._board_size, gif._reverse, PyNoneColors, "PieceTheme.ALPHA")

\* shorten_line on segments of integer length, from two starting points
ArrowCoords == {-24, -7, -4, 0, 3}
ArrowStarts == {<< 0, 0 >>, << 10, 10 >>}
Segments ==
    { << a, << a[1] + d[1], a[2] + d[2] >> >> :
        a \in ArrowStarts,
        d \in { v \in ArrowCoords \X ArrowCoords : IsSquare(v[1] * v[1] + v[2] * v[2]) } }

Length(line) ==
    sqrt((line[2][1] - line[1][1]) * (line[2][1] - line[1][1])
         + (line[2][2] - line[1][2]) * (line[2][2] - line[1][2]))

\* the pix arguments: nothing, part of the line, all of it, more than all of it
PixelsOf(ls) ==
    IF Len(ls) # 1 THEN {}
    ELSE {0, 2, Length(ls[1]), Length(ls[1]) + 5}

InitShorten ==
    /\ unit = "shorten"
    /\ game \in AnnotatedGames({Cp(0)})
    /\ Len(game) = 2
    /\ gif = NotBuilt
    /\ pc = "idle"
    /\ frames = << >>
    /\ captures = << >>
    /\ pgn = NotBuilt
    /\ \E s \in Segments : lines = << s >>
    /\ call = NoCall
    /\ canvas = NotBuilt
    /\ bar = NotBuilt
    /\ graph = NotBuilt
    /\ board = NotBuilt

\* line_intersection on the lines through the points of a small grid; a line
\* whose two points coincide has no direction
MaxGrid == 3
GridPoints == (0..MaxGrid) \X (0..MaxGrid)
FirstLines == { << a, b >> : a \in {<< 0, 0 >>, << 1, 3 >>}, b \in GridPoints }
SecondLines == { << a, b >> : a \in {<< 0, 1 >>, << 2, 2 >>, << 3, 0 >>}, b \in GridPoints }

InitIntersect ==
    /\ unit = "intersect"
    /\ game \in AnnotatedGames({Cp(0)})
    /\ Len(game) = 2
    /\ gif = NotBuilt
    /\ pc = "idle"
    /\ frames = << >>
    /\ captures = << >>
    /\ pgn = NotBuilt
    /\ \E l1 \in FirstLines, l2 \in SecondLines : lines = << l1, l2 >>
    /\ call = NoCall
    /\ canvas = NotBuilt
    /\ bar = NotBuilt
    /\ graph = NotBuilt
    /\ board = NotBuilt

\* Games for the overlays of generate.  A node's evaluation with the Wdl the
\* library gives for it, from white's side: the mates are fixed, the
\* centipawn scores stand for whatever score has that expectation.
NagEvals ==
    { << Mate(1), << 1000, 0, 0 >> >>, << Cp(90), << 690, 20, 290 >> >>,
      << Cp(0), << 20, 960, 20 >> >>, << Cp(-40), << 390, 20, 590 >> >>,
      << Cp(-90), << 290, 20, 690 >> >>, << Mate(-1), << 0, 0, 1000 >> >> }

\* the squares giving check: none, one piece, two pieces (a double check)
CheckerChoices == { << >>, << 39 >>, << 21, 39 >> }

\* a clock annotation in seconds, or none
ClockChoices == {PyNone, PyInt(60), PyInt(75)}

\* the games of 1..MaxPly moves whose nodes differ in one respect only
EvalGames ==
    UNION { [1..(n + 1) -> { [Node(e[1]) EXCEPT !.wdl = e[2]] : e \in NagEvals }] :
            n \in 1..MaxPly }
CheckGames ==
    UNION { [1..(n + 1) -> { [Node(Cp(0)) EXCEPT !.checkers = c] : c \in CheckerChoices }] :
            n \in 1..MaxPly }
ClockGames ==
    UNION { [1..(n + 1) -> { [Node(Cp(0)) EXCEPT !.clock = c] : c \in ClockChoices }] :
            n \in 1..MaxPly }

\* the object after board_size = 8, add_analysis_bar(1),
\* add_analysis_graph(MinGraph) and add_headers(1); a lower graph puts
\* every score of NagEvals on one row
MinGraph == 3
FullGif ==
    [set_board_size(NewGif, 8) EXCEPT !._bar_size = PyInt(1),
                                      !._graph_size = PyInt(MinGraph),
                                      !._header_size = PyInt(1)]

\* generate on such an object: after enable_nags on the games of EvalGames,
\* with and without enable_arrows on those of CheckGames, on those of
\* ClockGames; in both orientations
InitOverlays ==
    /\ unit = "overlays"
    /\ \E r \in BOOLEAN :
          \/ /\ game \in EvalGames
             /\ gif = [FullGif EXCEPT !._nag = TRUE, !._reverse = r]
          \/ /\ game \in CheckGames
             /\ gif \in {[FullGif EXCEPT !._arrows = TRUE, !._reverse = r],
                         [FullGif EXCEPT !._reverse = r]}
          \/ /\ game \in ClockGames
             /\ gif = [FullGif EXCEPT !._reverse = r]
    /\ pc = "idle"
    /\ frames = << >>
    /\ captures = << >>
    /\ pgn = NotBuilt
    /\ lines = << >>
    /\ call = NoCall
    /\ canvas = NotBuilt
    /\ bar = NotBuilt
    /\ graph = NotBuilt
    /\ board = NotBuilt

Init ==
    \/ InitOverlays
    \/ InitRooted
    \/ InitIntersect
    \/ InitShorten
    \/ InitHelpers
    \/ InitGif \/ InitCanvas \/ InitBar \/ InitGraph \/ InitBoard \/ InitPgn
    \/ InitPipeline

Next ==
    \/ \E n \in BoardPx : board_size_setter(n)
    \/ \E c \in ColorValues : square_colors_setter(c)
    \/ \E w \in BarWidths : add_analysis_bar(w)
    \/ \E h \in GraphHeights : add_analysis_graph(h)
    \/ enable_nags
    \/ \E h \in HeaderHeights : add_headers(h)
    \/ reverse_board
    \/ enable_arrows
    \/ generate_start
    \/ generate_frame
    \/ generate_hold
    \/ generate_save
    \/ add_board
    \/ add_canvas_headers
    \/ add_bar
    \/ add_graph
    \/ \E e \in For({"bar"}, Scores) : bar_get_bar_position(e)
    \/ \E e \in For({"bar"}, Scores) : gif_get_bar_position(e)
    \/ \E e \in For({"bar"}, LabelScores) : bar_draw_eval_bar(e)
    \/ \E e \in For({"bar"}, LabelScores) : gif_draw_eval_bar(e)
    \/ \E a \in For({"graph", "rooted"}, PositionArgs(game)) : graph_get_graph_position(a[1], a[2])
    \/ \E a \in For({"graph"}, PositionArgs(game)) : gif_get_graph_position(a[1], a[2])
    \/ \E k \in For({"graph", "rooted"}, MoveNumsOf(game)) : at_move(k)
    \/ \E k \in For({"graph"}, MoveNumsOf(game)), e \in GraphEvals : draw_graph_point(e, k)
    \/ \E n \in For({"board"}, BoardPx) : Board_board_size_setter(n)
    \/ \E c \in For({"board"}, ColorValues) : Board_square_colors_setter(c)
    \/ \E sq \in For({"board"}, SquaresDrawn) : draw_square(sq)
    \/ draw_board
    \/ \E sq \in For({"helpers"}, 0..63) : board_get_square_color(sq)
    \/ \E sq \in For({"helpers"}, 0..63), c \in BOOLEAN : board_get_square_position(sq, c)
    \/ \E sq \in For({"helpers"}, 0..63) : gif_get_square_color(sq)
    \/ \E sq \in For({"helpers"}, 0..63), nag \in {"blunder", "mistake", "inaccuracy"} : board_draw_nag(nag, sq)
    \/ \E sq \in For({"helpers"}, 0..63) : gif_draw_nag(sq)
    \/ \E sq \in For({"helpers"}, 0..63), c \in BOOLEAN : gif_get_square_position(sq, c)
    \/ PGN_has_analysis
    \/ gif_pgn_has_analysis
    \/ PGN_acpl(DefaultMaxEval)
    \/ \E pix \in PixelsOf(lines) : geometry_shorten_line(pix)
    \/ \E swap \in BOOLEAN : geometry_line_intersection(swap)
    \/ graph_draw_graph_background
    \/ gif_draw_graph_background

Spec == Init /\ [][Next]_vars

(***************************************************************************)
(* Properties.                                                             *)
(***************************************************************************)
\* the value a setting stores when it was enabled by its call
Contribution(x) == IF x.k = "int" THEN x.v ELSE 0

\* some node of the main line carries no evaluation
LacksEval(g) == \E i \in 1..Len(g) : g[i].eval = NoEval

AnalysisCalls == {"add_analysis_bar", "add_analysis_graph", "enable_nags"}

SettingOf(self, op) ==
    CASE op = "add_analysis_bar" -> self._bar_size
      [] op = "add_analysis_graph" -> self._graph_size
      [] OTHER -> self._nag

RequestedBy(c) == IF c.op = "enable_nags" THEN TRUE ELSE PyInt(c.arg)

\* C1: on a game in which some ply has no evaluation, add_analysis_bar,
\* add_analysis_graph and enable_nags raise MissingAnalysisError at the call
\* and leave their setting as it was; on a fully annotated game the call
\* succeeds and stores the requested width, height or flag.
C1_MissingAnalysisAtCall ==
    [][ (unit = "gif" /\ pc = "idle" /\ call'.op \in AnalysisCalls)
            => IF LacksEval(game)
               THEN /\ call'.raised = "MissingAnalysisError"
                    /\ SettingOf(gif', call'.op) = SettingOf(gif, call'.op)
               ELSE /\ call'.raised = "none"
                    /\ SettingOf(gif', call'.op) = RequestedBy(call') ]_vars

\* a game annotated at the root but not at a later ply: the graph was refused
C1_Refused ==
    /\ unit = "gif"
    /\ call.op = "add_analysis_graph"
    /\ call.raised = "MissingAnalysisError"
    /\ game[1].eval # NoEval
    /\ LacksEval(game)
    /\ gif._graph_size = NewGif._graph_size

\* C2: generate produces one frame per node of the main line, in ply order,
\* then the last frame 20 more times: N + 1 + 20 entries, entry i showing the
\* position after i moves, the last 20 equal to entry N.
C2_FrameList ==
    (unit = "gif" /\ call.op = "generate")
        => /\ call.raised = "none"
           /\ \A i \in 1..Len(frames) :
                  i <= EndPly(game) + 1 => frames[i].ply = i - 1
           /\ pc = "save"
                  => /\ Len(frames) = EndPly(game) + 1 + HoldFrames
                     /\ \A i \in (EndPly(game) + 2)..Len(frames) :
                            frames[i] = frames[EndPly(game) + 1]

\* C3: a fresh object has its optional settings unset (None); generate draws
\* a bar, a graph or headers only if the enabling call succeeded, reads no
\* evaluation otherwise, and then every frame is board_size x board_size.
C3_OnlyBoardByDefault ==
    unit = "gif"
        => /\ call.op = "__init__"
                  => /\ gif._bar_size = PyNone
                     /\ gif._graph_size = PyNone
                     /\ gif._header_size = PyNone
           /\ (call.op = "generate" /\ gif._bar_size.k # "int" /\ gif._graph_size.k # "int")
                  => call.raised = "none"
           /\ \A i \in 1..Len(frames) :
                  /\ \A j \in 1..Len(frames[i].layers) :
                        LET name == frames[i].layers[j].name
                        IN  /\ name = "bar" => gif._bar_size.k = "int"
                            /\ name = "graph" => gif._graph_size.k = "int"
                            /\ name \in {"white", "black"} => gif._header_size.k = "int"
                  /\ (/\ gif._bar_size.k # "int"
                      /\ gif._graph_size.k # "int"
                      /\ gif._header_size.k # "int")
                        => frames[i].size = << gif._board_size, gif._board_size >>

\* C4: canvas width = board + bar, canvas height = board + graph + 2 x header,
\* a layer that is not enabled contributing 0; the reverse flag has no part
\* in it.  Held for _canvas_size, for every frame generate builds and for
\* _Canvas.size.
C4_CanvasSize ==
    /\ unit = "gif"
          => LET expected ==
                     << gif._board_size + Contribution(gif._bar_size),
                        gif._board_size + Contribution(gif._graph_size)
                            + 2 * Contribution(gif._header_size) >>
             IN  /\ _canvas_size(gif) = expected
                 /\ _canvas_size([gif EXCEPT !._reverse = ~@]) = expected
                 /\ \A i \in 1..Len(frames) : frames[i].size = expected
    /\ unit = "canvas"
          => LET expected ==
                     << canvas.board_size + canvas.bar_size,
                        canvas.board_size + canvas.graph_size + 2 * canvas.header_size >>
             IN  /\ Canvas_size(canvas) = expected
                 /\ Canvas_size([canvas EXCEPT !.reverse = ~@]) = expected

\* generate has built all frames of a reversed board with bar, graph and headers
C4_AllLayersFrames ==
    /\ unit = "gif"
    /\ pc = "save"
    /\ gif._reverse
    /\ gif._board_size = 8
    /\ gif._bar_size = PyInt(2)
    /\ gif._graph_size = PyInt(1)
    /\ gif._header_size = PyInt(2)
    /\ frames[1].size = << 10, 13 >>

\* two rectangles share a pixel
Overlap(a, b) ==
    /\ a.w > 0 /\ a.h > 0 /\ b.w > 0 /\ b.h > 0
    /\ a.x < b.x + b.w /\ b.x < a.x + a.w
    /\ a.y < b.y + b.h /\ b.y < a.y + a.h

\* a rectangle lies on a raster of the given size
Within(r, size) ==
    /\ 0 <= r.x /\ r.x + r.w <= size[1]
    /\ 0 <= r.y /\ r.y + r.h <= size[2]

\* the origin of a layer, given board, header and graph sizes, canvas height
\* and orientation
OriginOf(name, b, hd, gr, height, reversed) ==
    CASE name = "board" -> << 0, hd >>
      [] name = "bar" -> << b, hd >>
      [] name = "graph" -> << 0, height - gr >>
      [] name = "white" -> << 0, IF reversed THEN 0 ELSE hd + b >>
      [] OTHER -> << 0, IF reversed THEN hd + b ELSE 0 >>

\* C5: board at (0, header), bar at (board, header), graph at (0, canvas
\* height - graph height), black header on top and white header below the
\* board unless reversed, when they swap; the placed rectangles never overlap
\* and never leave the canvas.
C5_LayerPlacement ==
    /\ unit = "canvas"
          => /\ \A r \in canvas.pasted :
                    /\ << r.x, r.y >> =
                           OriginOf(r.name, canvas.board_size, canvas.header_size,
                                    canvas.graph_size, Canvas_size(canvas)[2],
                                    canvas.reverse)
                    /\ Within(r, Canvas_size(canvas))
             /\ \A r1 \in canvas.pasted, r2 \in canvas.pasted :
                    r1.name # r2.name => ~Overlap(r1, r2)
    /\ unit = "gif"
          => \A i \in 1..Len(frames) :
                 LET layers == frames[i].layers
                 IN  /\ \A j \in 1..Len(layers) :
                            /\ << layers[j].x, layers[j].y >> =
                                   OriginOf(layers[j].name, gif._board_size,
                                            Contribution(gif._header_size),
                                            Contribution(gif._graph_size),
                                            frames[i].size[2], gif._reverse)
                            /\ Within(layers[j], frames[i].size)
                     /\ \A j \in 1..Len(layers), k \in 1..Len(layers) :
                            j # k => ~Overlap(layers[j], layers[k])

\* a reversed canvas on which all five rasters were pasted, none of them empty
C5_AllPasted ==
    /\ unit = "canvas"
    /\ canvas.reverse
    /\ canvas.board_size > 0
    /\ canvas.bar_size > 0
    /\ canvas.graph_size > 0
    /\ canvas.header_size > 0
    /\ {r.name : r \in canvas.pasted} = {"board", "bar", "graph", "white", "black"}

\* the largest multiple of 8 that does not exceed n
IsRoundedDown(size, n) == size % 8 = 0 /\ size <= n /\ n < size + 8

\* C6: the stored board size is the largest multiple of 8 not above the last
\* assigned value and 8 x square size = board size in every reachable state,
\* in CreateGifFromPGN and in _Board; no other call changes the board size.
C6_BoardSizeMultipleOf8 ==
    /\ [](/\ gif # NotBuilt
                => /\ gif._board_size % 8 = 0
                   /\ 8 * gif._sq_size = gif._board_size
                   /\ call.op = "board_size" => IsRoundedDown(gif._board_size, call.arg)
          /\ board # NotBuilt
                => /\ board._board_size % 8 = 0
                   /\ 8 * board._sq_size = board._board_size
                   /\ call.op = "_Board.board_size"
                          => IsRoundedDown(board._board_size, call.arg))
    /\ [][ /\ (gif # NotBuilt /\ ~(pc = "idle" /\ call'.op = "board_size"))
                 => gif'._board_size = gif._board_size
           /\ (board # NotBuilt /\ call'.op # "_Board.board_size")
                 => board'._board_size = board._board_size ]_vars

\* board_size = 9 was assigned: 8 is stored, the squares are 1 pixel wide
C6_NineStoredAsEight ==
    /\ unit = "gif"
    /\ call.op = "board_size"
    /\ call.arg = 9
    /\ gif._board_size = 8
    /\ gif._sq_size = 1

\* the members of PieceTheme
PieceThemeMembers == {"PieceTheme.ALPHA", "PieceTheme.CASES"}

\* a BoardTheme, or a mapping with the two keys chess.WHITE and chess.BLACK
WellFormedColors(c) == c.k \in {"BoardTheme", "dict"}

\* C7: square_colors given anything but a BoardTheme or a two-entry mapping,
\* or piece_theme given a non-member of PieceTheme, raises ValueError at the
\* assignment or at the construction of the board renderer; a well-formed
\* mapping is accepted and square_colors is then a BoardTheme of its colours.
C7_ThemesValidated ==
    /\ (unit = "gif" /\ call.op = "square_colors")
          => IF WellFormedColors(call.arg)
             THEN /\ call.raised = "none"
                  /\ gif._square_colors = [call.arg EXCEPT !.k = "BoardTheme"]
             ELSE call.raised = "ValueError"
    /\ (unit = "board" /\ call.op \in {"_Board", "_Board.square_colors"})
          => IF WellFormedColors(call.arg)
             THEN /\ call.raised = "none"
                  /\ board._square_colors = [call.arg EXCEPT !.k = "BoardTheme"]
             ELSE call.raised = "ValueError" \/ call.arg.k = "None"
    /\ (unit = "board" /\ board # NotBuilt)
          => board._piece_theme \in PieceThemeMembers

\* C8: the graph marker for ply k exists only for 0 <= k <= N; k > N raises
\* MoveOutOfRangeError naming k and N, k < 0 is an error as well, in
\* _Graph.at_move and in CreateGifFromPGN._draw_graph_point.
C8_MarkerOnlyInRange ==
    (unit = "graph" /\ call.op \in {"at_move", "_draw_graph_point"})
        => LET k == call.arg
               N == EndPly(game)
           IN  /\ k > N => /\ call.raised = "MoveOutOfRangeError"
                           /\ call.ret.message = OutOfRangeMessage(k, N)
               /\ k < 0 => call.raised # "none"
               /\ (0 <= k /\ k <= N)
                     => /\ call.raised = "none"
                        /\ call.ret.marker[1] >= 0

\* the edges of a bar of height h
WhiteEdge(h, reversed) == IF reversed THEN h ELSE 0
BlackEdge(h, reversed) == IF reversed THEN 0 ELSE h

\* C9: for a centipawn score the boundary of _EvalBar is floor(h/2) at 0, the
\* white edge for every score >= +max_eval, the black edge for every score
\* <= -max_eval, and always within [0, h].
C9_CentipawnsClamped ==
    (unit = "bar" /\ call.op = "_EvalBar._get_bar_position" /\ ~IsMate(call.arg))
        => LET h == bar._height
               m == bar._max_eval
               v == call.arg.v
           IN  /\ call.raised = "none"
               /\ 0 <= call.ret /\ call.ret <= h
               /\ v = 0 => call.ret = h \div 2
               /\ v >= m => call.ret = WhiteEdge(h, bar._reverse)
               /\ v <= -m => call.ret = BlackEdge(h, bar._reverse)

\* a mate score in favour of white (from white's point of view)
WhiteMates(evalu) == evalu.t = "mategiven" \/ (evalu.t = "mate" /\ evalu.v > 0)

\* C10: a forced mate, whatever its distance, puts the boundary on the edge
\* of the winning side, as a score of +/-max_eval does, in
\* _EvalBar._get_bar_position and in CreateGifFromPGN._get_bar_position, and
\* the two return the same boundary for every score and orientation.
C10_MateSaturates ==
    unit = "bar"
        => /\ (call.op = "_EvalBar._get_bar_position" /\ IsMate(call.arg))
                 => /\ call.raised = "none"
                    /\ call.ret = IF WhiteMates(call.arg)
                                  THEN WhiteEdge(bar._height, bar._reverse)
                                  ELSE BlackEdge(bar._height, bar._reverse)
           /\ (call.op = "_get_bar_position" /\ IsMate(call.arg))
                 => /\ call.raised = "none"
                    /\ call.ret = IF WhiteMates(call.arg)
                                  THEN WhiteEdge(gif._board_size, gif._reverse)
                                  ELSE BlackEdge(gif._board_size, gif._reverse)
           /\ bar._height = gif._board_size
                 => \A e \in Scores :
                        EvalBar_get_bar_position(bar, e) = _get_bar_position(gif, e)

PositionCalls == {"_Graph._get_graph_position", "_get_graph_position"}

\* C11: with graph height H and maximum evaluation m, score 0 maps to
\* y = floor((H-1)/2); every centipawn score >= +m and every mate won by white
\* maps to y = 0, every centipawn score <= -m and every mate won by black maps
\* to y = H-1; y always lies in [0, H-1].
C11_GraphYSaturates ==
    (unit = "graph" /\ call.op \in PositionCalls)
        => LET e == call.arg[1]
               y == call.ret[2]
               H == IF call.op = "_get_graph_position"
                    THEN gif._graph_size.v ELSE graph._height
               m == IF call.op = "_get_graph_position"
                    THEN gif._max_eval ELSE graph._max_eval
           IN  /\ 0 <= y /\ y <= H - 1
               /\ e = Cp(0) => y = (H - 1) \div 2
               /\ IsMate(e) => y = IF WhiteMates(e) THEN 0 ELSE H - 1
               /\ (~IsMate(e) /\ e.v >= m) => y = 0
               /\ (~IsMate(e) /\ e.v <= -m) => y = H - 1

\* C15: for a game of N plies and graph width W, x(k) = floor(W * k / N) for
\* every ply 0 <= k <= N, so x(0) = 0 and x(N) = W, whatever the score.
C15_GraphXLinear ==
    (unit = "graph" /\ call.op \in PositionCalls)
        => LET k == call.arg[2]
               N == EndPly(game)
               W == IF call.op = "_get_graph_position"
                    THEN _canvas_size(gif)[1] ELSE graph._width
           IN  (0 <= k /\ k <= N)
                   => /\ call.ret[1] = (W * k) \div N
                      /\ k = 0 => call.ret[1] = 0
                      /\ k = N => call.ret[1] = W

C13_GameValidated ==
    unit = "pgn"
        => IF game = NoGame \/ EndPly(game) < 1
           THEN /\ gif = NotBuilt
                /\ pgn = NotBuilt
                /\ call.op = "__init__"
                       => /\ call.raised = "ValueError"
                          /\ call.ret = IF game = NoGame
                                        THEN "Provided game is not valid/empty"
                                        ELSE "Provided game does not have any moves."
           ELSE /\ gif # NotBuilt
                /\ pgn # NotBuilt
                /\ call.op = "__init__" => call.raised = "none"

\* the piece a capturing move into the given ply takes, as the claim states
\* it: the piece on the destination square, or for an en-passant capture a
\* pawn of the colour opposite to the side that moved (white moves at odd plies)
TakenBy(g, ply) ==
    IF g[ply + 1].capture = "en_passant"
    THEN Piece("PAWN", ~(ply % 2 = 1))
    ELSE g[ply + 1].victim

RECURSIVE TakenUpTo(_, _)
TakenUpTo(g, ply) ==
    IF ply = 0 THEN << >>
    ELSE IF g[ply + 1].capture = "none" THEN TakenUpTo(g, ply - 1)
    ELSE Append(TakenUpTo(g, ply - 1), TakenBy(g, ply))

IsPrefix(a, b) == Len(a) <= Len(b) /\ SubSeq(b, 1, Len(a)) = a

\* C14: the captured-piece list of the frame of ply k is the sequence, in
\* move order, of the pieces captured by moves 1..k, and a prefix of the list
\* of every later frame; an en-passant capture adds a pawn of the colour
\* opposite to the capturing side.
C14_CapturesAccumulate ==
    unit = "pipeline"
        => /\ \A i \in 1..Len(frames) :
                  frames[i].captures = TakenUpTo(game, frames[i].ply)
           /\ \A i \in 1..Len(frames), j \in 1..Len(frames) :
                  i <= j => IsPrefix(frames[i].captures, frames[j].captures)
           /\ pc \in {"hold", "save"} => captures = TakenUpTo(game, EndPly(game))

\* white took en passant, black took the queen: both are on the last frame
C14_EnPassantThenQueen ==
    /\ unit = "pipeline"
    /\ pc = "save"
    /\ EndPly(game) = 2
    /\ game[2].capture = "en_passant"
    /\ game[3].capture = "capture"
    /\ frames[1].captures = << >>
    /\ frames[2].captures = << Piece("PAWN", FALSE) >>
    /\ frames[Len(frames)].captures = << Piece("PAWN", FALSE), Piece("QUEEN", TRUE) >>

\* C16: a square s of 0..63 is light exactly when (s mod 2) differs from
\* (floor(s/8) mod 2): a1 is dark, neighbours on a rank differ, and so do
\* neighbours on a file, in _Board and in CreateGifFromPGN.
C16_SquareColours ==
    /\ call.op = "get_square_color"
          => LET sq == call.arg
             IN  /\ call.ret = ((sq % 2) # ((sq \div 8) % 2))
                 /\ sq = 0 => call.ret = FALSE
                 /\ sq % 8 < 7 => get_square_color(sq + 1) # call.ret
                 /\ sq < 56 => get_square_color(sq + 8) # call.ret
    /\ call.op = "_get_square_color"
          => LET sq == call.arg
             IN  /\ call.ret = ((sq % 2) # ((sq \div 8) % 2))
                 /\ sq = 0 => call.ret = FALSE
                 /\ sq % 8 < 7 => _get_square_color(sq + 1) # call.ret
                 /\ sq < 56 => _get_square_color(sq + 8) # call.ret

\* a4 (square 24) was asked of the board renderer: it is light
C16_A4IsLight ==
    /\ unit = "helpers"
    /\ call.op = "get_square_color"
    /\ call.arg = 24
    /\ call.ret = TRUE

\* the corner of the square, as the claim states it
CornerOf(square, q, reversed) ==
    IF reversed
    THEN << (7 - (square % 8)) * q, (square \div 8) * q >>
    ELSE << (square % 8) * q, (7 - (square \div 8)) * q >>

\* C17: square_position is the corner (f*q, (7-r)*q), or ((7-f)*q, r*q) on a
\* reversed board, plus floor(q/2) in both coordinates with center=True; the
\* 64 squares get 64 distinct cells inside the board raster.
C17_SquarePositions ==
    /\ (unit = "helpers" /\ call.op = "get_square_position")
          => LET q == board._sq_size
                 corner == CornerOf(call.arg[1], q, board.reverse)
                 add == IF call.arg[2] THEN q \div 2 ELSE 0
             IN  /\ call.ret = << Whole(corner[1] + add), Whole(corner[2] + add) >>
                 /\ corner[1] + q <= board._board_size
                 /\ corner[2] + q <= board._board_size
                 /\ q > 0 => \A other \in 0..63 :
                        other # call.arg[1]
                            => get_square_position(board, other, call.arg[2]) # call.ret
    /\ (unit = "helpers" /\ call.op = "_get_square_position")
          => LET q == gif._sq_size
                 corner == CornerOf(call.arg[1], q, gif._reverse)
                 add == IF call.arg[2] THEN q \div 2 ELSE 0
             IN  /\ call.ret = << Whole(corner[1] + add), Whole(corner[2] + add) >>
                 /\ corner[1] + q <= gif._board_size
                 /\ corner[2] + q <= gif._board_size
                 /\ q > 0 => \A other \in 0..63 :
                        other # call.arg[1]
                            => _get_square_position(gif, other, call.arg[2]) # call.ret

\* sign of x - c for a Python number x and an integer c
Side(x, c) ==
    IF x.floor < c THEN -1
    ELSE IF x.floor > c \/ x.frac # << >> THEN 1
    ELSE 0

Sign(n) == IF n < 0 THEN -1 ELSE IF n > 0 THEN 1 ELSE 0

\* C18: shorten_line(a, b, p) returns a unchanged as first endpoint; its
\* second endpoint is b when p = 0, a when p is the length of the segment or
\* when a = b, and a point on the other side of a when p exceeds the length.
C18_ShortenLine ==
    (unit = "shorten" /\ call.op = "shorten_line")
        => LET a == call.arg[1]
               b == call.arg[2]
               p == call.arg[3]
               l == Length(<< a, b >>)
               end == call.ret[2]
           IN  /\ call.ret[1] = a
               /\ p = 0 => end = PyPoint(b)
               /\ p = l => end = PyPoint(a)
               /\ a = b => end = PyPoint(a)
               /\ (p > l /\ a # b)
                      => /\ Side(end[1], a[1]) = -Sign(b[1] - a[1])
                         /\ Side(end[2], a[2]) = -Sign(b[2] - a[2])

Cross(u, v) == u[1] * v[2] - u[2] * v[1]

Minus(p, q) == << p[1] - q[1], p[2] - q[2] >>

\* C19: line_intersection returns None exactly when the determinant of the
\* two direction vectors is zero; otherwise it returns the point collinear
\* with both pairs of endpoints (each coordinate as the nearest double), and
\* the same value when the two lines are exchanged.
C19_LineIntersection ==
    (unit = "intersect" /\ call.op = "line_intersection")
        => LET a == call.arg[1][1]
               c == call.arg[2][1]
               u == Minus(call.arg[1][2], a)
               v == Minus(call.arg[2][2], c)
               D == Cross(u, v)
               T == Cross(Minus(c, a), v)
               P == << a[1] * D + T * u[1], a[2] * D + T * u[2] >>
           IN  /\ (call.ret = PyNone) = (D = 0)
               /\ D # 0 =>
                      /\ Cross(Minus(P, << a[1] * D, a[2] * D >>), u) = 0
                      /\ Cross(Minus(P, << c[1] * D, c[2] * D >>), v) = 0
                      /\ call.ret = [k |-> "tuple",
                                     v |-> << TrueDiv(P[1], D), TrueDiv(P[2], D) >>]
               /\ call.ret = line_intersection(call.arg[2], call.arg[1])

\* two lines crossing to the right of every endpoint, at a point that is not
\* on the integer grid
C19_CrossingOutsideSegments ==
    /\ unit = "intersect"
    /\ call.op = "line_intersection"
    /\ call.ret # PyNone
    /\ call.ret.v[1].floor >= MaxGrid
    /\ call.ret.v[1].frac # << >>

BackgroundCalls == {"_Graph._draw_graph_background", "_draw_graph_background"}

ShadeOf(s) == IF s < 0 THEN DarkShade ELSE LightShade

\* the white-relative score at a ply of the game under the graph
ScoreAt(ply) ==
    score(game[ply + 1].eval,
          IF call.op = "_draw_graph_background" THEN gif._max_eval ELSE graph._max_eval)

\* the plies before the given one whose score is not 0
NonZeroBefore(ply) == { j \in 0..(ply - 1) : ScoreAt(j) # 0 }

\* C20: between two consecutive plies with scores p and e, a sign change
\* gives two polygons sharing the zero crossing, the first in the shade of
\* p's side and the second in the shade of e's side; otherwise one polygon,
\* in the shade of e's side, or of the last non-zero side when e is 0.
C20_BackgroundFill ==
    (unit = "graph" /\ call.op \in BackgroundCalls)
        => /\ call.raised = "none"
           /\ Len(call.ret) = EndPly(game)
           /\ \A ply \in 1..EndPly(game) :
                 LET p == ScoreAt(ply - 1)
                     e == ScoreAt(ply)
                     f == call.ret[ply]
                 IN  IF p * e < 0
                     THEN /\ Len(f) = 2
                          /\ f[1].xy[3] = f[2].xy[1]
                          /\ f[1].fill = ShadeOf(p)
                          /\ f[2].fill = ShadeOf(e)
                     ELSE /\ Len(f) = 1
                          /\ e # 0 => f[1].fill = ShadeOf(e)
                          /\ (e = 0 /\ NonZeroBefore(ply) # {})
                                 => f[1].fill =
                                        ShadeOf(ScoreAt(CHOOSE j \in NonZeroBefore(ply) :
                                                    \A i \in NonZeroBefore(ply) : i <= j))

\* the graph position of a score at a ply, as the object that drew the
\* background computes it
PositionAt(evalu, ply) ==
    IF call.op = "_draw_graph_background"
    THEN _get_graph_position(gif, game, evalu, ply)
    ELSE Graph_get_graph_position(graph, evalu, ply)

\* C21: drawing the background of a fully annotated game raises nothing, and
\* at every sign change between two consecutive plies the zero crossing is a
\* point on the zero axis whose x lies between the x positions of the two plies.
C21_ZeroCrossingDefined ==
    (unit = "graph" /\ call.op \in BackgroundCalls)
        => /\ call.raised = "none"
           /\ \A ply \in 1..EndPly(game) :
                 ScoreAt(ply - 1) * ScoreAt(ply) < 0
                     => LET zinter == call.ret[ply][1].xy[3]
                        IN  /\ zinter[2] = PyNumber(PositionAt(Cp(0), ply)[2])
                            /\ zinter[1].floor >= PositionAt(Cp(0), ply - 1)[1]
                            /\ \/ zinter[1].floor < PositionAt(Cp(0), ply)[1]
                               \/ zinter[1] = PyNumber(PositionAt(Cp(0), ply)[1])

\* C22: the background stored in a _Graph is the one drawn at construction,
\* without a marker, whatever at_move calls were made; a successful
\* at_move(k) returns the background's drawing with exactly one marker,
\* centred at ply k's graph position, at the requested output size.
C22_BackgroundReadOnly ==
    (unit \in {"graph", "rooted"} /\ graph # NotBuilt)
        => /\ graph._background.markers = << >>
           /\ graph._background.fills = Graph_draw_graph_background(graph).fills
           /\ (call.op = "at_move" /\ call.raised = "none")
                 => LET image == call.ret.image
                        at == Graph_get_graph_position(graph, NodeAt(game, call.arg).eval,
                                                       call.arg)
                    IN  /\ Len(image.markers) = 1
                        /\ image.markers[1].box[1] + image.markers[1].box[3] = 2 * at[1]
                        /\ image.markers[1].box[2] + image.markers[1].box[4] = 2 * at[2]
                        /\ image.fills = graph._background.fills
                        /\ image.size = graph._output_size

\* at_move has returned the image of the last ply of a game with moves whose
\* background has a fill
C22_MarkerOnLastPly ==
    /\ unit = "graph"
    /\ graph # NotBuilt
    /\ call.op = "at_move"
    /\ call.raised = "none"
    /\ call.arg = EndPly(game)
    /\ call.arg = MaxPly
    /\ Len(call.ret.image.markers) = 1
    /\ Len(graph._background.fills) = MaxPly
    /\ graph._output_size # graph._background.size

\* ten times the change of the mover's expectation over the move to the
\* given ply, in units of 1/2000
TenfoldChange(ply) ==
    LET mover == ~BoardTurn(ply)
        before == Expectation(PovWdl(game[ply].wdl, mover))
        after == Expectation(PovWdl(game[ply + 1].wdl, mover))
    IN  10 * (after.num - before.num)

\* C23: with glyphs enabled, the frame of a ply with a move shows 'blunder'
\* when the mover's expectation changed by d < -0.30, 'mistake' when
\* -0.30 <= d < -0.20, 'inaccuracy' when -0.20 <= d < -0.10 and no glyph when
\* d >= -0.10; the root frame and the frames made without glyphs show none.
C23_NagThresholds ==
    GenerateUnit
        => \A i \in 1..Len(frames) :
              LET f == frames[i]
              IN  IF f.ply = 0 \/ ~gif._nag THEN f.nags = << >>
                  ELSE LET d == TenfoldChange(f.ply)
                           glyphs == [j \in 1..Len(f.nags) |-> f.nags[j].nag]
                       IN  glyphs = IF d < -6000 THEN << "blunder" >>
                                    ELSE IF d < -4000 THEN << "mistake" >>
                                    ELSE IF d < -2000 THEN << "inaccuracy" >>
                                    ELSE << >>

\* the arrows the frame of a ply is to show: the move's, then one per checker
ExpectedArrows(ply) ==
    IF ply = 0 \/ ~gif._arrows THEN << >>
    ELSE LET node == game[ply + 1]
         IN  << [from |-> node.from_square, to |-> node.to_square] >>
                 \o [i \in 1..Len(node.checkers) |->
                        [from |-> node.checkers[i], to |-> node.king]]

\* C25: generate with arrows enabled makes a frame for every ply, with one
\* arrow along the move and one more from each checking piece to the king of
\* the side to move; the root frame has no arrow, nor has any frame when
\* arrows are not enabled.
C25_MoveAndCheckArrows ==
    unit = "overlays"
        => /\ call.op = "generate" => call.raised = "none"
           /\ \A i \in 1..Len(frames) :
                 [j \in 1..Len(frames[i].arrows) |->
                     [from |-> frames[i].arrows[j].from, to |-> frames[i].arrows[j].to]]
                   = ExpectedArrows(frames[i].ply)

\* the clock annotation of the most recent move of a side at or before a ply
\* (white moves into the odd plies), PyNone when the side has not moved
LastClockOf(white, ply) ==
    LET own == { j \in 1..ply : (j % 2 = 1) = white }
    IN  IF own = {} THEN PyNone
        ELSE game[(CHOOSE j \in own : \A i \in own : i <= j) + 1].clock

\* C27: the headers of the frame of ply k show, for each side, the clock
\* annotation of that side's most recent move at or before ply k, and no
\* clock for a side that has not moved or whose move has no annotation.
C27_ClockOfLastMove ==
    unit = "overlays"
        => \A i \in 1..Len(frames) :
              /\ frames[i].clock.white = LastClockOf(TRUE, frames[i].ply)
              /\ frames[i].clock.black = LastClockOf(FALSE, frames[i].ply)

\* the board the last draw_nag / _draw_nag call pasted on: its square size,
\* its size, and the column and row (from the top left) of the call's square
NagBoard ==
    LET q == IF call.op = "draw_nag" THEN board._sq_size ELSE gif._sq_size
        reversed == IF call.op = "draw_nag" THEN board.reverse ELSE gif._reverse
    IN  [ q |-> q,
          size |-> IF call.op = "draw_nag" THEN board._board_size ELSE gif._board_size,
          column |-> Abs(square_file(call.arg) - (IF reversed THEN 7 ELSE 0)),
          row |-> Abs(square_rank(call.arg) - (IF reversed THEN 0 ELSE 7)) ]

\* C24: the glyph icon, of side floor(q/2), is pasted inside the board: its
\* offset from the square's corner is floor(0.75 q) to the right, floor(0.5 q)
\* in the rightmost column, and floor(0.25 q) upwards, 0 in the top row.
C24_NagInsideBoard ==
    (unit = "helpers" /\ call.op \in {"draw_nag", "_draw_nag"})
        => /\ Len(call.ret) = 1
           /\ LET box == call.ret[1].box
                  b == NagBoard
              IN  /\ box.size = b.q \div 2
                  /\ box.x >= 0
                  /\ box.y >= 0
                  /\ box.x + box.size <= b.size
                  /\ box.y + box.size <= b.size
                  /\ box.x - b.column * b.q
                        = IF b.column = 7 THEN b.q \div 2 ELSE (3 * b.q) \div 4
                  /\ b.row * b.q - box.y = IF b.row = 0 THEN 0 ELSE b.q \div 4

\* a glyph pasted by _draw_nag in the top right corner of a board with
\* squares of 7 pixels
C24_TopRightCorner ==
    /\ unit = "helpers"
    /\ call.op = "_draw_nag"
    /\ gif._sq_size = 7
    /\ Len(call.ret) = 1
    /\ call.ret[1].box.y = 0
    /\ call.ret[1].box.x = 52
    /\ call.ret[1].box.size = 3

\* C26: the label of the evaluation bar reads the signed one-decimal pawn
\* value of a centipawn score and 'M' with the absolute mate distance of a
\* mate score; when White is ahead (a positive centipawn score, or a mate won
\* by White at any distance) the label is black and sits at White's edge of
\* the bar (the bottom, or the top on a reversed board); otherwise, a score of
\* 0 included, it is white and sits at the opposite edge.
WhiteAhead(evalu) == WhiteMates(evalu) \/ (evalu.t = "cp" /\ evalu.v > 0)
C26_BarLabel ==
    (call.op \in {"_EvalBar._draw_eval_bar", "_draw_eval_bar"} /\ call.raised = "none")
        => LET evalu == call.arg
               label == call.ret[1].label
               height == IF call.op = "_draw_eval_bar" THEN gif._board_size ELSE bar._height
               reverse == IF call.op = "_draw_eval_bar" THEN gif._reverse ELSE bar._reverse
               bottom == IF reverse THEN 0 ELSE height
           IN  /\ evalu.t = "cp" =>
                     /\ label.text[1] = (IF evalu.v < 0 THEN "-" ELSE "+")
                     /\ 2 * Abs(Abs(evalu.v) - 10 * label.text[2]) <= 10
               /\ evalu.t # "cp" => label.text = << "M", Abs(mate(evalu)) >>
               /\ WhiteAhead(evalu) => label.color = "black" /\ label.pos = bottom
               /\ ~WhiteAhead(evalu) => label.color = "white" /\ label.pos = height - bottom

\* C28: on every graph that was built, also of a game whose starting
\* position is not ply 0, at_move succeeds for every ply of the game and
\* puts the marker at an x within 0..width: at x = 0 for the first ply and
\* at x = width for the final ply.
C28_EveryPlyOnGraph ==
    (unit \in {"graph", "rooted"} /\ call.op = "at_move"
        /\ call.arg \in RootPly(game)..LastPly(game))
        => /\ call.raised = "none"
           /\ call.ret.marker[1] \in 0..graph._width
           /\ call.arg = RootPly(game) => call.ret.marker[1] = 0
           /\ call.arg = LastPly(game) => call.ret.marker[1] = graph._width

\* the mover's evaluation at a ply kept within [-limit, limit] with its sign
Limited(g, ply, color, limit) ==
    LET x == PovScoreOf(NodeAt(g, ply), ply, color, limit)
    IN  IF x > limit THEN limit ELSE IF x < -limit THEN -limit ELSE x
\* no move of the side improves that side's evaluation
OnlyWorse(g, color, limit) ==
    \A ply \in (RootPly(g) + 1)..LastPly(g) :
        ~BoardTurn(ply) = color
            => PovScoreOf(NodeAt(g, ply), ply, color, limit)
                   <= PovScoreOf(NodeAt(g, ply - 1), ply - 1, color, limit)

\* C29: acpl limits every evaluation to [-max_eval, max_eval] keeping its
\* sign before it takes the per-move difference from the mover's side, so
\* each counted change lies in [-2*max_eval, 2*max_eval]; a side whose
\* evaluation only gets worse never gets a negative average loss; on a game
\* without full analysis acpl raises MissingAnalysisError.
C29_AcplLimitsEvaluations ==
    (unit = "pgn" /\ call.op = "PGN.acpl" /\ game # NoGame)
        => LET limit == call.arg
           IN  /\ LacksEval(game) => call.raised = "MissingAnalysisError"
               /\ call.raised = "none" =>
                     /\ \A k \in 1..Len(call.ret.steps) :
                           LET step == call.ret.steps[k]
                               ply == RootPly(game) + k
                           IN  /\ step.curr_eval = Limited(game, ply, step.color, limit)
                               /\ step.prev_eval = Limited(game, ply - 1, step.color, limit)
                               /\ Abs(step.change) <= 2 * limit
                     /\ OnlyWorse(game, TRUE, limit) => call.ret.value[1].white >= 0
                     /\ OnlyWorse(game, FALSE, limit) => call.ret.value[1].black >= 0

\* every memoised square image has the current square size and the fill the
\* current theme gives its colour, and no colour is memoised twice
MemoCurrent(self) ==
    /\ \A i \in 1..Len(self._square_images) :
          LET image == self._square_images[i]
          IN  /\ image.size = self._sq_size
              /\ image.fill = square_color(self._square_colors, image.color)
    /\ \A i, j \in 1..Len(self._square_images) :
          self._square_images[i].color = self._square_images[j].color => i = j
ColorsOf(images) == { images[i].color : i \in 1..Len(images) }

\* C30: after any sequence of board_size assignments, square_colors
\* assignments and square draws on a board renderer, every memoised
\* square-fill image has the current square size as its side and the fill
\* the current theme assigns to its colour; both setters leave the memo
\* empty; an entry appears only when a square of its colour is drawn.
C30_SquareMemoCurrent ==
    /\ []((unit = "board" /\ board # NotBuilt) => MemoCurrent(board))
    /\ [][(unit = "board" /\ board # NotBuilt) =>
            /\ (call'.op \in {"_Board.board_size", "_Board.square_colors"}
                    /\ call'.raised = "none")
                  => board'._square_images = << >>
            /\ call'.op = "draw_square"
                  => ColorsOf(board'._square_images)
                         = ColorsOf(board._square_images) \cup {get_square_color(call'.arg)}
            /\ call'.op = "_Board.square_colors" /\ call'.raised # "none"
                  => board' = board]_vars

\* a dark square was drawn on a board that was resized and given another
\* theme: its image and the light square's are memoised with the new fill
C30_RedrawnAfterSetters ==
    /\ unit = "board"
    /\ board # NotBuilt
    /\ call.op = "draw_square"
    /\ ~get_square_color(call.arg)
    /\ Len(board._square_images) = 2
    /\ board._square_colors # DefaultTheme
    /\ board._sq_size = 1

====
